---- MODULE Spec2Model ----
(***************************************************************************)
(* Push relay (Cloudflare Worker): device registry in the DEVICE_TOKENS KV *)
(* namespace, publisher credentials cached in the AUTH_TOKENS namespace,   *)
(* the /push fan-out and the cron refresh.                                 *)
(*                                                                         *)
(* Every `await` on a KV call or on fetch is a suspension point: one       *)
(* action of the model is the code that runs between two of them, together *)
(* with the effect of the awaited call.                                    *)
(***************************************************************************)
EXTENDS Integers, Sequences, FiniteSets, TLC

\* ------------------------------------------------------------------ bounds
\* Requests (register / unregister / purge / push) started in one run.
MaxOps == 3
\* Clock ticks of the registry runs (registered_at values 0..MaxRegTicks).
MaxRegTicks == 1
\* Keys returned by one kv.list page.
PageSize == 1
\* Requests started in one run of the dispatch specification.
MaxPushOps == 3
\* Requests of one run in which no registration overlaps a dispatch.
MaxAloneOps == 4
\* Registry calls of a run in which the calls do not overlap.
MaxSeqOps == 4
\* Requests of one run of the validating handlers.
MaxRouterOps == 3
\* Cron events of one run of the Token Worker.
MaxCronRuns == 2
\* Clock ticks of the credential runs.
MaxCredTicks == 3

\* ------------------------------------------------------------- input sets
\* Relay tokens (tenants). kv.list returns keys in ascending order.
Tenants == {1, 2}
Tokens == {"d1", "d2"}
Platforms == {"ios", "android"}
\* bundle_id is optional: NoBundle is the missing field.
NoBundle == "undefined"
\* The platform / bundle_id pairs of the register bodies.
Bodies == {[platform |-> "ios", bundle_id |-> "com.aptove.app"],
           [platform |-> "android", bundle_id |-> NoBundle]}

\* ---------------------------------------------------------------- helpers
\* kv.get of a key that does not exist (or has expired) returns null.
Null == [present |-> FALSE, devices |-> <<>>]
\* A credential string: what it is, when it was generated, and by which call.
NoCred == [kind |-> "none", iat |-> 0, n |-> 0]
\* No reason / message / error (undefined).
NoReason == "undefined"
\* A frame that has not returned yet.
NoRet == "-"
NoDev == [platform |-> "-", device_token |-> "-", bundle_id |-> NoBundle, registered_at |-> 0]

KEY_PREFIX == "devices:"

\* A key that ignores the relay token (every tenant shares one entry).
key_shared(relayToken) == <<KEY_PREFIX, 1>>

key(relayToken) == <<KEY_PREFIX, relayToken>>

\* entry.name.slice(KEY_PREFIX.length)
relayOf(name) == name[2]

KeySpace == {<<KEY_PREFIX, t>> : t \in Tenants}

\* Request handlers in flight at the same time.
TaskIds == {1, 2}
\* The per-device sends of the dispatch of handler i (Promise.all of
\* handlePush): its n-th device is sent to by frame 10 * i + n. An entry holds
\* each device token once, so a dispatch has a send per token at most.
SendId(i, n) == 10 * i + n
SendsOf(i) == {SendId(i, n) : n \in 1..Cardinality(Tokens)}
SendIds == UNION {SendsOf(i) : i \in TaskIds}
\* The refreshes that scheduled() started: frames 1 and 2, and frames 3 and 4
\* for a Cron run that starts while the refresh of the run before it is running.
CronIds == {1, 2, 3, 4}
FrameIds == TaskIds \cup SendIds \cup CronIds

VARIABLES
  store,       \* DEVICE_TOKENS: key -> Null or the stored {devices: [...]}
  now,         \* wall clock (Date.now), in seconds
  task,        \* request handlers: task id -> frame
  ops,         \* requests started so far
  registered,  \* history: <<relay token, device token>> pairs of register requests
  auth,        \* AUTH_TOKENS: key -> EmptySlot or the value put with its expirationTtl
  env,         \* the Worker's secrets: which private keys can be imported
  genCalls     \* history: calls of generateApnsJwt / generateServiceAccountJwt so far

vars == <<store, now, task, ops, registered, auth, env, genCalls>>

IdleTask ==
  [op |-> "none", pc |-> "idle", relay |-> 0, tok |-> "-", dev |-> NoDev,
   devices |-> <<>>, keys |-> <<>>, cursor |-> 0, removed |-> 0,
   proto |-> "-", iat |-> 0, n |-> 0, cred |-> NoCred, reason |-> NoReason,
   err |-> NoReason, ret |-> NoRet]

Free(i) == task[i].pc \in {"idle", "done", "raised"}
\* A new request takes the lowest free handler slot.
Slot(i) == Free(i) /\ \A j \in TaskIds : j < i => ~Free(j)

\* ------------------------------------------------------------------ kv.ts
\* getDevices: raw?.devices ?? []
getDevices(kv, relayToken) ==
  IF kv[key(relayToken)] = Null THEN <<>> ELSE kv[key(relayToken)].devices

\* devices.findIndex(d => d.device_token === device.device_token), 0-based, -1 if none
findIndex(devices, deviceToken) ==
  IF \E n \in 1..Len(devices) : devices[n].device_token = deviceToken
  THEN (CHOOSE n \in 1..Len(devices) :
          /\ devices[n].device_token = deviceToken
          /\ \A m \in 1..(n - 1) : devices[m].device_token # deviceToken) - 1
  ELSE -1

\* addDevice without the findIndex branch: always push.
addDeviceList_push(devices, device) == Append(devices, device)

\* addDevice that drops the old record and pushes the new one at the end.
addDeviceList_moveToEnd(devices, device) ==
  Append(SelectSeq(devices, LAMBDA d : d.device_token # device.device_token), device)

\* addDevice, lines 33-38: the list that is put
addDeviceList(devices, device) ==
  LET idx == findIndex(devices, device.device_token)
  IN IF idx >= 0 THEN [devices EXCEPT ![idx + 1] = device]
     ELSE Append(devices, device)

\* devices.filter(d => d.device_token !== deviceToken)
filterOut(devices, deviceToken) ==
  SelectSeq(devices, LAMBDA d : d.device_token # deviceToken)

\* kv.delete(key) / kv.put(key, JSON.stringify({devices}))
kvDelete(kv, k) == [kv EXCEPT ![k] = Null]
kvPut(kv, k, devices) == [kv EXCEPT ![k] = [present |-> TRUE, devices |-> devices]]

RECURSIVE Ascending(_)
Ascending(S) ==
  IF S = {} THEN <<>>
  ELSE LET m == CHOOSE x \in S : \A y \in S : x <= y
       IN <<m>> \o Ascending(S \ {m})

\* A kv.list that ignores the cursor: every call returns the first page.
kvList_restart(kv, cursor) ==
  LET all == Ascending({t \in Tenants : kv[<<KEY_PREFIX, t>>] # Null})
      n == IF Len(all) < PageSize THEN Len(all) ELSE PageSize
  IN [keys |-> [m \in 1..n |-> <<KEY_PREFIX, all[m]>>],
      list_complete |-> Len(all) <= PageSize,
      cursor |-> IF n = 0 THEN cursor ELSE all[n]]

\* A kv.list whose cursor points one key past the page it returned.
kvList_skip(kv, cursor) ==
  LET all == Ascending({t \in Tenants : t > cursor /\ kv[<<KEY_PREFIX, t>>] # Null})
      n == IF Len(all) < PageSize THEN Len(all) ELSE PageSize
  IN [keys |-> [m \in 1..n |-> <<KEY_PREFIX, all[m]>>],
      list_complete |-> Len(all) <= PageSize,
      cursor |-> IF n = 0 THEN cursor ELSE all[n] + 1]

\* kv.list({prefix: KEY_PREFIX, cursor}): one page of the keys that exist,
\* in ascending order, after the cursor (0 is the undefined cursor).
kvList(kv, cursor) ==
  LET all == Ascending({t \in Tenants : t > cursor /\ kv[<<KEY_PREFIX, t>>] # Null})
      n == IF Len(all) < PageSize THEN Len(all) ELSE PageSize
  IN [keys |-> [m \in 1..n |-> <<KEY_PREFIX, all[m]>>],
      list_complete |-> Len(all) <= PageSize,
      cursor |-> IF n = 0 THEN cursor ELSE all[n]]

\* ------------------------------------------------------------ continuations
\* PushResult
PushResult(platform, status, reason) ==
  [platform |-> platform, status |-> status, reason |-> reason]

\* The platform string of the results of sendApns / sendFcm.
PlatformOf(p) == IF p = "apns" THEN "ios" ELSE "android"

\* The message of the TypeError of err.reason / err.error on a null err.
NullBodyError == "TypeError: cannot read properties of null"

\* removeDeviceGlobally returned `removed` to its caller: a direct caller gets
\* the count, sendApns (274-275) / sendFcm (179-180) return status removed.
\* When err is null, err.reason on line 275 throws after the removal and the
\* catch block returns status failed with the TypeError's message.
PurgeReturn(f) ==
  IF f.op = "send"
  THEN [f EXCEPT !.pc = "done",
          !.ret = PushResult(PlatformOf(f.proto),
                             IF f.reason = NullBodyError THEN "failed" ELSE "removed",
                             f.reason)]
  ELSE [f EXCEPT !.pc = "done", !.ret = f.removed]

\* removeDeviceGlobally that reads the first kv.list page only.
PurgeStep_firstPage(f) ==
  IF f.keys # <<>>
  THEN [f EXCEPT !.relay = relayOf(Head(f.keys)), !.keys = Tail(f.keys), !.pc = "rm_get"]
  ELSE PurgeReturn(f)

\* removeDeviceGlobally, lines 77-84: next entry of the page, next page, or return.
PurgeStep(f) ==
  IF f.keys # <<>>
  THEN [f EXCEPT !.relay = relayOf(Head(f.keys)), !.keys = Tail(f.keys), !.pc = "rm_get"]
  ELSE IF f.cursor # 0 THEN [f EXCEPT !.pc = "list"]
  ELSE PurgeReturn(f)

\* removeDevice returned `found` to its caller: handleUnregister (router.ts 106)
\* or the loop of removeDeviceGlobally (kv.ts 79-81).
AfterRemove(f, found) ==
  IF f.op = "unregister" THEN [f EXCEPT !.pc = "done", !.ret = found]
  ELSE PurgeStep([f EXCEPT !.removed = IF found THEN @ + 1 ELSE @])

\* ---------------------------------------------------------------- actions
TickSeconds == 1500

RegTick ==
  /\ now < MaxRegTicks * TickSeconds
  /\ now' = now + TickSeconds
  /\ UNCHANGED <<store, task, ops, registered, auth, env, genCalls>>

\* handleRegister with a valid body, up to the first await of addDevice.
StartRegister(i, t, d, p, b) ==
  /\ Slot(i)
  /\ task' = [task EXCEPT ![i] =
       [IdleTask EXCEPT !.op = "register", !.pc = "add_get", !.relay = t, !.tok = d,
          !.dev = [platform |-> p, device_token |-> d, bundle_id |-> b,
                   registered_at |-> now]]]
  /\ ops' = ops + 1
  /\ registered' = registered \cup {<<t, d>>}
  /\ UNCHANGED <<store, now, auth, env, genCalls>>

\* addDevice, line 32: the read of the tenant's entry.
AddGet(i) ==
  /\ task[i].pc = "add_get"
  /\ task' = [task EXCEPT ![i].devices = getDevices(store, task[i].relay),
                          ![i].pc = "add_put"]
  /\ UNCHANGED <<store, now, ops, registered, auth, env, genCalls>>

\* addDevice as one atomic read-modify-write: the put extends the entry as it
\* stands at the time of the put.
AddPut_atomic(i) ==
  /\ task[i].pc = "add_put"
  /\ store' = kvPut(store, key(task[i].relay),
                    addDeviceList(getDevices(store, task[i].relay), task[i].dev))
  /\ task' = [task EXCEPT ![i].pc = "done", ![i].ret = "Device registered"]
  /\ UNCHANGED <<now, ops, registered, auth, env, genCalls>>

\* addDevice whose put waits until no removeDeviceGlobally is scanning.
AddPut_afterPurge(i) ==
  /\ task[i].pc = "add_put"
  /\ \A j \in FrameIds : task[j].op = "purge" => Free(j)
  /\ store' = kvPut(store, key(task[i].relay),
                    addDeviceList(task[i].devices, task[i].dev))
  /\ task' = [task EXCEPT ![i].pc = "done", ![i].ret = "Device registered"]
  /\ UNCHANGED <<now, ops, registered, auth, env, genCalls>>

\* addDevice, lines 33-39: update the list that was read and put it.
AddPut(i) ==
  /\ task[i].pc = "add_put"
  /\ store' = kvPut(store, key(task[i].relay),
                    addDeviceList(task[i].devices, task[i].dev))
  /\ task' = [task EXCEPT ![i].pc = "done", ![i].ret = "Device registered"]
  /\ UNCHANGED <<now, ops, registered, auth, env, genCalls>>

\* handleUnregister with a valid body, up to the first await of removeDevice.
StartUnregister(i, t, d) ==
  /\ Slot(i)
  /\ task' = [task EXCEPT ![i] =
       [IdleTask EXCEPT !.op = "unregister", !.pc = "rm_get", !.relay = t, !.tok = d]]
  /\ ops' = ops + 1
  /\ UNCHANGED <<store, now, registered, auth, env, genCalls>>

\* removeDevice that deletes nothing when the list becomes empty: it puts [].
RmWriteFrame_keepEmpty(kv, f) == kvPut(kv, key(f.relay), f.devices)

\* removeDevice, lines 55-59: the store after the write of the filtered list.
RmWriteFrame(kv, f) ==
  IF Len(f.devices) = 0 THEN kvDelete(kv, key(f.relay))
  ELSE kvPut(kv, key(f.relay), f.devices)

\* removeDevice that skips the early return of line 53.
RmRead_noEarlyReturn(kv, f) ==
  [f EXCEPT !.devices = filterOut(getDevices(kv, f.relay), f.tok), !.pc = "rm_write"]

\* removeDevice, lines 51-53: read, filter, and return false when nothing matched.
RmRead(kv, f) ==
  LET devices == getDevices(kv, f.relay)
      filtered == filterOut(devices, f.tok)
  IN IF Len(filtered) = Len(devices) THEN AfterRemove(f, FALSE)
     ELSE [f EXCEPT !.devices = filtered, !.pc = "rm_write"]

RmGet(i) ==
  /\ task[i].pc = "rm_get"
  /\ task' = [task EXCEPT ![i] = RmRead(store, task[i])]
  /\ UNCHANGED <<store, now, ops, registered, auth, env, genCalls>>

RmWrite(i) ==
  /\ task[i].pc = "rm_write"
  /\ store' = RmWriteFrame(store, task[i])
  /\ task' = [task EXCEPT ![i] = AfterRemove(task[i], TRUE)]
  /\ UNCHANGED <<now, ops, registered, auth, env, genCalls>>

\* A direct call of removeDeviceGlobally(kv, deviceToken), up to its first kv.list.
StartPurge(i, d) ==
  /\ Slot(i)
  /\ task' = [task EXCEPT ![i] =
       [IdleTask EXCEPT !.op = "purge", !.pc = "list", !.tok = d]]
  /\ ops' = ops + 1
  /\ UNCHANGED <<store, now, registered, auth, env, genCalls>>

\* removeDeviceGlobally, lines 76 and 83: one kv.list page; the cursor of the
\* next round is fixed by this page (undefined when list_complete).
PurgeList(i) ==
  /\ task[i].pc = "list"
  /\ LET list == kvList(store, task[i].cursor)
     IN task' = [task EXCEPT ![i] =
          PurgeStep([task[i] EXCEPT !.keys = list.keys,
                       !.cursor = IF list.list_complete THEN 0 ELSE list.cursor])]
  /\ UNCHANGED <<store, now, ops, registered, auth, env, genCalls>>

\* ------------------------------------------------------- apns.ts / fcm.ts
Protocols == {"apns", "fcm"}

\* Both modules caching under one key.
AuthKey_shared(p) == "apns:jwt"

\* AUTH_TOKEN_KV_KEY of apns.ts and of fcm.ts
AuthKey(p) == IF p = "apns" THEN "apns:jwt" ELSE "fcm:access_token"
AuthKeys == {AuthKey(p) : p \in Protocols}

JWT_TTL_SECONDS == 3000
TOKEN_TTL_SECONDS == 3300
\* exp: now + 3600 of the assertion; "APNs max is 60", "Google tokens last 60"
UPSTREAM_VALIDITY_SECONDS == 3600

EmptySlot == [present |-> FALSE, value |-> NoCred, stored_at |-> 0, ttl |-> 0]

\* AUTH_TOKENS.get(key): the value, or null (NoCred) once expirationTtl has run out.
authGet(a, k, t) ==
  IF a[k].present /\ t < a[k].stored_at + a[k].ttl THEN a[k].value ELSE NoCred

\* AUTH_TOKENS.put(key, value, {expirationTtl})
authPut(a, k, value, ttl, t) ==
  [a EXCEPT ![k] = [present |-> TRUE, value |-> value, stored_at |-> t, ttl |-> ttl]]

\* scheduled(): "Runs every 45 minutes to pre-generate auth tokens".
CRON_INTERVAL_SECONDS == 2700

\* A put whose entry lives for one Cron interval only.
ExpirationTtl_interval(p) == CRON_INTERVAL_SECONDS

\* A put that lets the entry live as long as the upstream accepts the credential.
ExpirationTtl_upstream(p) == UPSTREAM_VALIDITY_SECONDS

\* The expirationTtl of the put of getApnsJwt / refreshApnsJwt and of
\* getFcmAccessToken / refreshFcmToken.
ExpirationTtl(p) == IF p = "apns" THEN JWT_TTL_SECONDS ELSE TOKEN_TTL_SECONDS

KeyImportError == "key import failed"
ExchangeError == "OAuth2 token exchange failed"

\* The credential call returned c to its caller: sendApns / sendFcm go on to
\* the delivery fetch, getApnsJwt / getFcmAccessToken return the string,
\* refreshApnsJwt / refreshFcmToken return nothing.
CredReturn(f, c) ==
  IF f.op = "send" THEN [f EXCEPT !.cred = c, !.pc = "fetch"]
  ELSE IF f.op = "getCredential" THEN [f EXCEPT !.pc = "done", !.ret = c]
  ELSE [f EXCEPT !.pc = "done", !.ret = "void"]

\* The credential call threw, with no handler on the promise of the refresh.
CredRaise_uncaught(f, msg) == [f EXCEPT !.pc = "raised", !.err = msg, !.ret = msg]

\* The credential call threw. In sendApns (line 241) and sendFcm (line 145) the
\* call stands before the try block, so the send rejects with the same error.
\* scheduled() puts a .catch on each refresh: the error is logged (err) and the
\* promise resolves.
CredRaise(f, msg) ==
  IF f.op = "scheduled" THEN [f EXCEPT !.pc = "done", !.err = msg, !.ret = "void"]
  ELSE [f EXCEPT !.pc = "raised", !.err = msg, !.ret = msg]

\* getApnsJwt / getFcmAccessToken that leave generating to the scheduled
\* refresh: on a miss they read the cache again.
CredRead_awaitRefresher(a, t, f, n) ==
  LET cached == authGet(a, AuthKey(f.proto), t)
  IN IF cached # NoCred THEN CredReturn(f, cached) ELSE f

\* getApnsJwt / getFcmAccessToken that never look at the cache.
CredRead_noCache(a, t, f, n) == [f EXCEPT !.pc = "sign", !.iat = t, !.n = n]

\* getApnsJwt 192-196 / getFcmAccessToken 101-105: return the cached string, or
\* start generating (iat is Date.now() of this moment; n numbers the call).
CredRead(a, t, f, n) ==
  LET cached == authGet(a, AuthKey(f.proto), t)
  IN IF cached # NoCred THEN CredReturn(f, cached)
     ELSE [f EXCEPT !.pc = "sign", !.iat = t, !.n = n]

\* A generation that caches what it signed, without the exchange for FCM.
Sign_noExchange(f, e) ==
  IF e[f.proto] # "valid" THEN CredRaise(f, KeyImportError)
  ELSE [f EXCEPT !.cred = [kind |-> IF f.proto = "apns" THEN "apns_jwt" ELSE "fcm_assertion",
                           iat |-> f.iat, n |-> f.n],
                 !.pc = "cred_put"]

\* generateApnsJwt 176-183 / generateServiceAccountJwt 64-72: import the key and
\* sign. The APNs JWT is the credential; the FCM assertion still has to be exchanged.
Sign(f, e) ==
  IF e[f.proto] # "valid" THEN CredRaise(f, KeyImportError)
  ELSE IF f.proto = "apns"
       THEN [f EXCEPT !.cred = [kind |-> "apns_jwt", iat |-> f.iat, n |-> f.n],
                      !.pc = "cred_put"]
       ELSE [f EXCEPT !.cred = [kind |-> "fcm_assertion", iat |-> f.iat, n |-> f.n],
                      !.pc = "exchange"]

\* exchangeForAccessToken without the res.ok check of lines 88-91.
Exchange_ignoreStatus(f, ok, t) ==
  [f EXCEPT !.cred = [kind |-> "fcm_access_token", iat |-> t, n |-> f.n], !.pc = "cred_put"]

\* exchangeForAccessToken: the token endpoint answers ok with an access token
\* issued now, or not ok.
Exchange(f, ok, t) ==
  IF ok THEN [f EXCEPT !.cred = [kind |-> "fcm_access_token", iat |-> t, n |-> f.n],
                       !.pc = "cred_put"]
  ELSE CredRaise(f, ExchangeError)

\* Empty namespaces, no request in flight; e is the deployment's secrets.
InitWith(e) ==
  /\ store = [k \in KeySpace |-> Null]
  /\ now = 0
  /\ task = [i \in FrameIds |-> IdleTask]
  /\ ops = 0
  /\ registered = {}
  /\ auth = [k \in AuthKeys |-> EmptySlot]
  /\ env = e
  /\ genCalls = [p \in Protocols |-> 0]

Init == InitWith([p \in Protocols |-> "valid"])

Register == \E i \in TaskIds, t \in Tenants, d \in Tokens, b \in Bodies :
              ops < MaxOps /\ StartRegister(i, t, d, b.platform, b.bundle_id)
Unregister == \E i \in TaskIds, t \in Tenants, d \in Tokens :
                ops < MaxOps /\ StartUnregister(i, t, d)
Purge == \E i \in TaskIds, d \in Tokens : ops < MaxOps /\ StartPurge(i, d)
RegistryStep == \E i \in TaskIds \cup SendIds :
                  AddGet(i) \/ AddPut(i) \/ RmGet(i) \/ RmWrite(i) \/ PurgeList(i)

Next == RegTick \/ Register \/ Unregister \/ Purge \/ RegistryStep

Spec == Init /\ [][Next]_vars

\* A call of getApnsJwt(env) / getFcmAccessToken(env), up to its AUTH_TOKENS.get.
StartGetCredential(i, p) ==
  /\ Slot(i)
  /\ task' = [task EXCEPT ![i] =
       [IdleTask EXCEPT !.op = "getCredential", !.pc = "cred_get", !.proto = p]]
  /\ ops' = ops + 1
  /\ UNCHANGED <<store, now, registered, auth, env, genCalls>>

\* A refresh that looks at the cache first, as getApnsJwt / getFcmAccessToken do.
StartRefresh_cached(i, p) ==
  /\ Slot(i)
  /\ task' = [task EXCEPT ![i] =
       [IdleTask EXCEPT !.op = "refresh", !.pc = "cred_get", !.proto = p]]
  /\ ops' = ops + 1
  /\ UNCHANGED <<store, now, registered, auth, env, genCalls>>

\* A call of refreshApnsJwt(env) / refreshFcmToken(env): generation starts at once.
StartRefresh(i, p) ==
  /\ Slot(i)
  /\ task' = [task EXCEPT ![i] =
       [IdleTask EXCEPT !.op = "refresh", !.pc = "sign", !.proto = p, !.iat = now,
                        !.n = genCalls[p] + 1]]
  /\ genCalls' = [genCalls EXCEPT ![p] = @ + 1]
  /\ ops' = ops + 1
  /\ UNCHANGED <<store, now, registered, auth, env>>

CredGet(i) ==
  /\ task[i].pc = "cred_get"
  /\ LET f == CredRead(auth, now, task[i], genCalls[task[i].proto] + 1)
     IN /\ task' = [task EXCEPT ![i] = f]
        /\ genCalls' = IF f.pc = "sign" THEN [genCalls EXCEPT ![task[i].proto] = @ + 1]
                       ELSE genCalls
  /\ UNCHANGED <<store, now, ops, registered, auth, env>>

CredSign(i) ==
  /\ task[i].pc = "sign"
  /\ task' = [task EXCEPT ![i] = Sign(task[i], env)]
  /\ UNCHANGED <<store, now, ops, registered, auth, env, genCalls>>

CredExchange(i, ok) ==
  /\ task[i].pc = "exchange"
  /\ task' = [task EXCEPT ![i] = Exchange(task[i], ok, now)]
  /\ UNCHANGED <<store, now, ops, registered, auth, env, genCalls>>

\* A put that leaves a credential that has not expired in place.
CredPut_keepExisting(i) ==
  /\ task[i].pc = "cred_put"
  /\ auth' = IF authGet(auth, AuthKey(task[i].proto), now) # NoCred THEN auth
             ELSE authPut(auth, AuthKey(task[i].proto), task[i].cred,
                          ExpirationTtl(task[i].proto), now)
  /\ task' = [task EXCEPT ![i] = CredReturn(task[i], task[i].cred)]
  /\ UNCHANGED <<store, now, ops, registered, env, genCalls>>

\* A put that leaves in place a credential generated later than its own.
CredPut_keepNewer(i) ==
  /\ task[i].pc = "cred_put"
  /\ auth' = IF /\ auth[AuthKey(task[i].proto)].present
                /\ auth[AuthKey(task[i].proto)].value.iat > task[i].cred.iat
             THEN auth
             ELSE authPut(auth, AuthKey(task[i].proto), task[i].cred,
                          ExpirationTtl(task[i].proto), now)
  /\ task' = [task EXCEPT ![i] = CredReturn(task[i], task[i].cred)]
  /\ UNCHANGED <<store, now, ops, registered, env, genCalls>>

\* The AUTH_TOKENS.put of the four credential functions, and their return.
CredPut(i) ==
  /\ task[i].pc = "cred_put"
  /\ auth' = authPut(auth, AuthKey(task[i].proto), task[i].cred,
                     ExpirationTtl(task[i].proto), now)
  /\ task' = [task EXCEPT ![i] = CredReturn(task[i], task[i].cred)]
  /\ UNCHANGED <<store, now, ops, registered, env, genCalls>>

CredTick ==
  /\ now < MaxCredTicks * TickSeconds
  /\ now' = now + TickSeconds
  /\ UNCHANGED <<store, task, ops, registered, auth, env, genCalls>>

\* The deployment has real keys, or the test bindings ("test-key").
InitCred == \E k \in {"valid", "test-key"} : InitWith([p \in Protocols |-> k])

GetCredential == \E i \in TaskIds, p \in Protocols :
                   ops < MaxOps /\ StartGetCredential(i, p)
Refresh == \E i \in TaskIds, p \in Protocols : ops < MaxOps /\ StartRefresh(i, p)
CredStep == \E i \in FrameIds :
              CredGet(i) \/ CredSign(i) \/ CredPut(i) \/ \E ok \in BOOLEAN : CredExchange(i, ok)

NextCred == CredTick \/ GetCredential \/ Refresh \/ CredStep

SpecCred == InitCred /\ [][NextCred]_vars

\* ------------------------------------------------- handlePush and the sends
\* `HTTP ${res.status}`
HttpReason(status) == "HTTP " \o ToString(status)

NetworkError == "network error"

\* What the upstream can answer to one delivery request: fetch throws (net), or
\* a response with an HTTP status and a JSON body; code is body.reason (APNs) or
\* body.error.status (FCM), message is body.error.message; a malformed body
\* leaves them undefined.
Response(net, status, code, message) ==
  [net |-> net, status |-> status, code |-> code, message |-> message, null |-> FALSE]

\* A response whose body is the JSON text null: res.json() resolves to null, so
\* the .catch(() => ({})) does not apply and err is null.
NullResponse(status) ==
  [net |-> FALSE, status |-> status, code |-> NoReason, message |-> NoReason, null |-> TRUE]

Responses(p) ==
  IF p = "apns"
  THEN {Response(FALSE, 200, NoReason, NoReason),
        Response(FALSE, 204, NoReason, NoReason),
        Response(FALSE, 410, "Unregistered", NoReason),
        Response(FALSE, 410, "ExpiredToken", NoReason),
        Response(FALSE, 410, NoReason, NoReason),
        Response(FALSE, 400, "BadDeviceToken", NoReason),
        Response(FALSE, 500, NoReason, NoReason),
        NullResponse(410),
        Response(TRUE, 0, NoReason, NoReason)}
  ELSE {Response(FALSE, 200, NoReason, NoReason),
        Response(FALSE, 204, NoReason, NoReason),
        Response(FALSE, 404, "UNREGISTERED", "Requested entity was not found."),
        Response(FALSE, 404, "NOT_FOUND", "Requested entity was not found."),
        Response(FALSE, 400, "INVALID_ARGUMENT", "The registration token is not valid."),
        Response(FALSE, 503, NoReason, NoReason),
        NullResponse(500),
        Response(TRUE, 0, NoReason, NoReason)}

\* res.ok
ResOk(r) == r.status >= 200 /\ r.status <= 299

\* The frame that starts removeDeviceGlobally(env.DEVICE_TOKENS, deviceToken).
PurgeCall(f, reason) ==
  [f EXCEPT !.pc = "list", !.cursor = 0, !.removed = 0, !.keys = <<>>, !.reason = reason]

\* A sendApns that purges the token on every error status.
ApnsOutcome_purgeOnError(f, r) ==
  IF r.net THEN [f EXCEPT !.pc = "done", !.ret = PushResult("ios", "failed", NetworkError)]
  ELSE IF ResOk(r) THEN [f EXCEPT !.pc = "done", !.ret = PushResult("ios", "sent", NoReason)]
  ELSE PurgeCall(f, IF r.null THEN NullBodyError
                    ELSE IF r.code # NoReason THEN r.code ELSE "Unregistered")

\* sendApns, lines 253-289: the answer to the delivery request.
ApnsOutcome(f, r) ==
  IF r.net THEN [f EXCEPT !.pc = "done", !.ret = PushResult("ios", "failed", NetworkError)]
  ELSE IF ResOk(r) THEN [f EXCEPT !.pc = "done", !.ret = PushResult("ios", "sent", NoReason)]
  ELSE IF r.status = 410
       THEN PurgeCall(f, IF r.null THEN NullBodyError
                         ELSE IF r.code # NoReason THEN r.code ELSE "Unregistered")
       ELSE [f EXCEPT !.pc = "done",
               !.ret = PushResult("ios", "failed",
                                  IF r.null THEN NullBodyError
                                  ELSE IF r.code # NoReason THEN r.code
                                  ELSE HttpReason(r.status))]

\* sendFcm, lines 158-194: the answer to the delivery request.
FcmOutcome(f, r) ==
  IF r.net THEN [f EXCEPT !.pc = "done", !.ret = PushResult("android", "failed", NetworkError)]
  ELSE IF ResOk(r) THEN [f EXCEPT !.pc = "done", !.ret = PushResult("android", "sent", NoReason)]
  ELSE IF r.null
       THEN [f EXCEPT !.pc = "done", !.ret = PushResult("android", "failed", NullBodyError)]
  ELSE LET status == IF r.code # NoReason THEN r.code ELSE ""
       IN IF status = "UNREGISTERED" \/ status = "NOT_FOUND"
          THEN PurgeCall(f, status)
          ELSE [f EXCEPT !.pc = "done",
                  !.ret = PushResult("android", "failed",
                            IF r.message # NoReason THEN r.message ELSE HttpReason(r.status))]

\* No dispatch is in flight and no send of an abandoned dispatch is still running.
NoDispatch ==
  /\ \A j \in TaskIds : task[j].op = "push" => Free(j)
  /\ \A s \in SendIds : Free(s)

\* The handler slot of a new dispatch: the lowest free one whose send frames
\* are free too (the sends of a dispatch that threw may still be running).
PushSlot(i) ==
  /\ Free(i) /\ \A s \in SendsOf(i) : Free(s)
  /\ \A j \in TaskIds : j < i => ~(Free(j) /\ \A s \in SendsOf(j) : Free(s))

\* handlePush with a valid body, up to its getDevices.
StartPush(i, t) ==
  /\ PushSlot(i)
  /\ task' = [task EXCEPT ![i] =
       [IdleTask EXCEPT !.op = "push", !.pc = "push_get", !.relay = t]]
  /\ ops' = ops + 1
  /\ UNCHANGED <<store, now, registered, auth, env, genCalls>>

\* The send that devices.map starts for one device: sendApns / sendFcm run up
\* to the AUTH_TOKENS.get of getApnsJwt / getFcmAccessToken.
SendCall(d) ==
  [IdleTask EXCEPT !.op = "send", !.pc = "cred_get", !.tok = d.device_token,
                   !.proto = IF d.platform = "ios" THEN "apns" ELSE "fcm"]

\* handlePush without the early return of lines 134-136.
PushGet_noEarlyReturn(i) ==
  /\ task[i].pc = "push_get"
  /\ LET devices == getDevices(store, task[i].relay)
     IN task' = [j \in FrameIds |->
                   IF j = i THEN [task[i] EXCEPT !.pc = "push_wait", !.devices = devices]
                   ELSE IF \E n \in 1..Len(devices) : j = SendId(i, n)
                        THEN SendCall(devices[j - SendId(i, 0)])
                        ELSE IF j \in SendsOf(i) THEN IdleTask ELSE task[j]]
  /\ UNCHANGED <<store, now, ops, registered, auth, env, genCalls>>

\* handlePush, lines 132-148: read the devices; answer at once when there are
\* none, otherwise start one send per device and wait for all of them.
PushGet(i) ==
  /\ task[i].pc = "push_get"
  /\ LET devices == getDevices(store, task[i].relay)
     IN IF Len(devices) = 0
        THEN task' = [task EXCEPT ![i].pc = "done",
                        ![i].ret = [ok |-> TRUE, results |-> <<>>,
                                    message |-> "No devices registered"]]
        ELSE task' = [j \in FrameIds |->
                        IF j = i THEN [task[i] EXCEPT !.pc = "push_wait", !.devices = devices]
                        ELSE IF \E n \in 1..Len(devices) : j = SendId(i, n)
                             THEN SendCall(devices[j - SendId(i, 0)])
                             ELSE IF j \in SendsOf(i) THEN IdleTask ELSE task[j]]
  /\ UNCHANGED <<store, now, ops, registered, auth, env, genCalls>>

\* A send that repeats the delivery request once when fetch throws.
SendFetch_retry(s, r) ==
  /\ task[s].pc = "fetch"
  /\ r \in Responses(task[s].proto)
  /\ task' = [task EXCEPT ![s] =
       IF r.net /\ task[s].err = NoReason THEN [task[s] EXCEPT !.err = NetworkError]
       ELSE IF task[s].proto = "apns" THEN ApnsOutcome(task[s], r)
       ELSE FcmOutcome(task[s], r)]
  /\ UNCHANGED <<store, now, ops, registered, auth, env, genCalls>>

\* The delivery fetch of one send and what the send does with the answer.
SendFetch(s, r) ==
  /\ task[s].pc = "fetch"
  /\ r \in Responses(task[s].proto)
  /\ task' = [task EXCEPT ![s] = IF task[s].proto = "apns" THEN ApnsOutcome(task[s], r)
                                 ELSE FcmOutcome(task[s], r)]
  /\ UNCHANGED <<store, now, ops, registered, auth, env, genCalls>>

\* handlePush, lines 139-150: Promise.all resolved, the results in device order.
PushJoin(i) ==
  /\ task[i].pc = "push_wait"
  /\ \A n \in 1..Len(task[i].devices) : task[SendId(i, n)].pc = "done"
  /\ task' = [task EXCEPT ![i].pc = "done",
       ![i].ret = [ok |-> TRUE,
                   results |-> [n \in 1..Len(task[i].devices) |-> task[SendId(i, n)].ret],
                   message |-> NoReason]]
  /\ UNCHANGED <<store, now, ops, registered, auth, env, genCalls>>

\* handlePush, line 139: Promise.all rejects with the error of a send that
\* rejected, and handlePush throws it; the other sends keep running.
PushReject(i) ==
  /\ task[i].pc = "push_wait"
  /\ \E n \in 1..Len(task[i].devices) :
       /\ task[SendId(i, n)].pc = "raised"
       /\ task' = [task EXCEPT ![i].pc = "raised", ![i].ret = task[SendId(i, n)].ret]
  /\ UNCHANGED <<store, now, ops, registered, auth, env, genCalls>>

InitPush == \E e \in [Protocols -> {"valid", "test-key"}] : InitWith(e)

\* POST /register, DELETE /register and POST /push arrive at any time: a
\* dispatch runs beside registrations, removals and another dispatch.
PushRegister == \E i \in TaskIds, t \in Tenants, d \in Tokens, b \in Bodies :
                  ops < MaxPushOps /\ StartRegister(i, t, d, b.platform, b.bundle_id)
PushUnregister == \E i \in TaskIds, t \in Tenants, d \in Tokens :
                    ops < MaxPushOps /\ StartUnregister(i, t, d)
Push == \E i \in TaskIds, t \in Tenants : ops < MaxPushOps /\ StartPush(i, t)
PushStep == \E i \in TaskIds : PushGet(i) \/ PushJoin(i) \/ PushReject(i)
SendStep == \E s \in SendIds : \E r \in Responses(task[s].proto) : SendFetch(s, r)

NextPush == PushRegister \/ PushUnregister \/ Push \/ PushStep \/ SendStep \/ CredStep \/ RegistryStep

SpecPush == InitPush /\ [][NextPush]_vars

\* ------------------------------------- dispatches with no registration beside
\* Register requests that return before a dispatch starts, and one dispatch at
\* a time: nothing but the sends of the dispatch writes while it runs.
AloneRegister == \E i \in TaskIds, t \in Tenants, d \in Tokens, b \in Bodies :
                   /\ ops < MaxAloneOps
                   /\ NoDispatch /\ \A j \in TaskIds : Free(j)
                   /\ StartRegister(i, t, d, b.platform, b.bundle_id)
AlonePush == \E i \in TaskIds, t \in Tenants :
               /\ ops < MaxAloneOps
               /\ NoDispatch /\ \A j \in TaskIds : Free(j)
               /\ StartPush(i, t)

NextAlone == AloneRegister \/ AlonePush \/ PushStep \/ SendStep \/ CredStep \/ RegistryStep

SpecAlone == InitPush /\ [][NextAlone]_vars

\* ------------------------------------------- scans that are run to the end
\* removeDeviceGlobally next to registrations, every started request being
\* resumed when its KV operation has completed.
MaxScanOps == 3

ScanRegister == \E i \in TaskIds, t \in Tenants, d \in Tokens, b \in Bodies :
                  ops < MaxScanOps /\ StartRegister(i, t, d, b.platform, b.bundle_id)
ScanPurge == \E i \in TaskIds, d \in Tokens : ops < MaxScanOps /\ StartPurge(i, d)
ScanStepOf(i) == AddGet(i) \/ AddPut(i) \/ RmGet(i) \/ RmWrite(i) \/ PurgeList(i)
ScanStep == \E i \in TaskIds : ScanStepOf(i)

NextScan == ScanRegister \/ ScanPurge \/ ScanStep

SpecScan == Init /\ [][NextScan]_vars /\ \A i \in TaskIds : WF_vars(ScanStepOf(i))

\* ------------------------------------------- one request after the other
\* Nothing is in flight: no handler, no send.
Quiescent == \A j \in FrameIds : Free(j)

\* Registry calls that start only when the previous call has returned, so that
\* each addDevice / removeDevice / removeDeviceGlobally runs with no other
\* writer beside it.
SeqRegister == \E i \in TaskIds, t \in Tenants, d \in Tokens, b \in Bodies :
                 ops < MaxSeqOps /\ Quiescent /\ StartRegister(i, t, d, b.platform, b.bundle_id)
SeqUnregister == \E i \in TaskIds, t \in Tenants, d \in Tokens :
                   ops < MaxSeqOps /\ Quiescent /\ StartUnregister(i, t, d)
SeqPurge == \E i \in TaskIds, d \in Tokens :
              ops < MaxSeqOps /\ Quiescent /\ StartPurge(i, d)

NextSeq == SeqRegister \/ SeqUnregister \/ SeqPurge \/ RegistryStep

SpecSeq == Init /\ [][NextSeq]_vars

\* ------------------------------------------------------------ scheduled()
\* The secrets scheduled() looks at. env["apns"] / env["fcm"] stand for
\* APNS_PRIVATE_KEY / FCM_PRIVATE_KEY; "" is a secret that is not set.
CronSecrets == Protocols \cup {"APNS_KEY_ID", "APNS_TEAM_ID", "FCM_CLIENT_EMAIL"}
CronEnvs ==
  {e \in [CronSecrets -> {"valid", "test-key", "set", ""}] :
     /\ \A p \in Protocols : e[p] \in {"valid", "test-key", ""}
     /\ \A k \in CronSecrets \ Protocols : e[k] \in {"set", ""}}

\* scheduled() with a gate that lets every protocol through.
Configured_always(e, p) == TRUE

\* The conditions of lines 237 and 246.
Configured(e, p) ==
  IF p = "apns" THEN e["apns"] # "" /\ e["APNS_KEY_ID"] # "" /\ e["APNS_TEAM_ID"] # ""
  ELSE e["fcm"] # "" /\ e["FCM_CLIENT_EMAIL"] # ""

\* The frames of the refreshes that scheduled() starts for a protocol, and the
\* protocol of a frame.
CronFrames(p) == IF p = "apns" THEN {1, 3} ELSE {2, 4}
CronProto(i) == IF i \in CronFrames("apns") THEN "apns" ELSE "fcm"

\* The frame a new refresh of protocol p takes: the lowest free one.
CronSlot(i) ==
  /\ Free(i)
  /\ \A j \in CronFrames(CronProto(i)) : j < i => ~Free(j)

\* refreshApnsJwt(env) / refreshFcmToken(env) as called by scheduled(): run up to
\* the key import of the generation.
CronCall(p, t, n) ==
  [IdleTask EXCEPT !.op = "scheduled", !.pc = "sign", !.proto = p, !.iat = t, !.n = n]

\* One Cron event: scheduled() starts the refresh of every configured protocol
\* and hands Promise.all of them to ctx.waitUntil.
Scheduled ==
  /\ ops < MaxCronRuns
  /\ \A p \in Protocols : Configured(env, p) => \E i \in CronFrames(p) : Free(i)
  /\ task' = [j \in FrameIds |->
       IF j \in CronIds /\ Configured(env, CronProto(j)) /\ CronSlot(j)
       THEN CronCall(CronProto(j), now, genCalls[CronProto(j)] + 1)
       ELSE task[j]]
  /\ genCalls' = [p \in Protocols |-> IF Configured(env, p) THEN genCalls[p] + 1
                                      ELSE genCalls[p]]
  /\ ops' = ops + 1
  /\ UNCHANGED <<store, now, registered, auth, env>>

CronStep == \E i \in CronIds :
              CredSign(i) \/ CredPut(i) \/ \E ok \in BOOLEAN : CredExchange(i, ok)

InitCron == \E e \in CronEnvs : InitWith(e)

NextCron == CredTick \/ Scheduled \/ CronStep

SpecCron == InitCron /\ [][NextCron]_vars

\* ------------------------------------------- the Cron schedule on a clock
\* The clock of the schedule advances by a fraction of the Cron interval.
TicksPerInterval == 1
ClockStep == CRON_INTERVAL_SECONDS \div TicksPerInterval

\* The time of the next Cron event; the first one comes at time 0.
NextCronAt == ops * CRON_INTERVAL_SECONDS

\* Every secret set, every key importable.
ConfiguredEnv == [k \in CronSecrets |-> IF k \in Protocols THEN "valid" ELSE "set"]

\* The Cron event fires on schedule.
CronEvent == now = NextCronAt /\ Scheduled

\* Time passes up to the next Cron event, whatever is in flight.
CronClock ==
  /\ now + ClockStep <= NextCronAt
  /\ now' = now + ClockStep
  /\ UNCHANGED <<store, task, ops, registered, auth, env, genCalls>>

\* The frame of the request path: a send of the Push Worker asking for its credential.
RequestFrame == 11

\* getApnsJwt(env) / getFcmAccessToken(env) called on the request path while
\* the schedule runs.
RequestGet == \E p \in Protocols :
  /\ Free(RequestFrame)
  /\ task' = [task EXCEPT ![RequestFrame] =
       [IdleTask EXCEPT !.op = "getCredential", !.pc = "cred_get", !.proto = p]]
  /\ UNCHANGED <<store, now, ops, registered, auth, env, genCalls>>

\* The refreshes and the request succeed: the token endpoint answers ok.
ClockStepOf(i) == CredGet(i) \/ CredSign(i) \/ CredPut(i) \/ CredExchange(i, TRUE)
ClockCredStep == \E i \in CronIds \cup {RequestFrame} : ClockStepOf(i)

NextClock == CronEvent \/ CronClock \/ RequestGet \/ ClockCredStep

SpecClock == InitWith(ConfiguredEnv) /\ [][NextClock]_vars

\* --------------------------------------- the request path without the Cron
\* getApnsJwt / getFcmAccessToken in a deployment whose scheduled() has never
\* run: the cache is empty, or holds what earlier calls stored until it expires.
\* Every generation succeeds, and a started call is run to its end.
ColdStepOf(i) == CredGet(i) \/ CredSign(i) \/ CredPut(i) \/ CredExchange(i, TRUE)
ColdStep == \E i \in TaskIds : ColdStepOf(i)

NextCold == CredTick \/ GetCredential \/ ColdStep

SpecCold == Init /\ [][NextCold]_vars /\ \A i \in TaskIds : WF_vars(ColdStepOf(i))

\* ------------------------------------------------- the request validation
\* A field that the JSON body does not have.
Missing == "undefined"

\* relay_token values of a body: absent (or ""), one character short of the
\* minimum, or the token of a tenant.
RelayTokens ==
  {[len |-> 0, id |-> 0], [len |-> 31, id |-> 0]}
    \cup {[len |-> 32, id |-> t] : t \in Tenants}

\* Request bodies: json is FALSE for a body that request.json() cannot parse.
RegisterRequests ==
  {b \in [json : BOOLEAN, relay_token : RelayTokens, device_token : Tokens \cup {Missing},
          platform : {"ios", "android", "web", Missing}, bundle_id : {"com.aptove.app", NoBundle}] :
     /\ b.bundle_id = (IF b.platform = "ios" THEN "com.aptove.app" ELSE NoBundle)
     /\ ~b.json => (b.relay_token.len = 0 /\ b.device_token = Missing /\ b.platform = Missing)}
UnregisterRequests ==
  {b \in [json : BOOLEAN, relay_token : RelayTokens, device_token : Tokens \cup {Missing}] :
     ~b.json => (b.relay_token.len = 0 /\ b.device_token = Missing)}
PushRequests ==
  {b \in [json : BOOLEAN, relay_token : RelayTokens, title : {"hello", Missing},
          body : {"world", Missing}] :
     ~b.json => (b.relay_token.len = 0 /\ b.title = Missing /\ b.body = Missing)}

MinRelayTokenLength == 32

\* validateRelayToken
validateRelayToken(token) == token.len >= MinRelayTokenLength

\* handleRegister without the platform check of lines 72-74.
RegisterError_anyPlatform(b) ==
  IF ~b.json THEN "Invalid JSON body"
  ELSE IF b.relay_token.len = 0 \/ b.device_token = Missing \/ b.platform = Missing
       THEN "Missing required fields: relay_token, device_token, platform"
  ELSE IF ~validateRelayToken(b.relay_token)
       THEN "Invalid relay_token (minimum 32 characters)"
  ELSE NoReason

\* handleRegister, lines 57-74: the error of the 400 response, NoReason for a
\* body that passes.
RegisterError(b) ==
  IF ~b.json THEN "Invalid JSON body"
  ELSE IF b.relay_token.len = 0 \/ b.device_token = Missing \/ b.platform = Missing
       THEN "Missing required fields: relay_token, device_token, platform"
  ELSE IF ~validateRelayToken(b.relay_token)
       THEN "Invalid relay_token (minimum 32 characters)"
  ELSE IF b.platform # "ios" /\ b.platform # "android"
       THEN "platform must be \"ios\" or \"android\""
  ELSE NoReason

\* handleUnregister, lines 92-104
UnregisterError(b) ==
  IF ~b.json THEN "Invalid JSON body"
  ELSE IF b.relay_token.len = 0 \/ b.device_token = Missing
       THEN "Missing required fields: relay_token, device_token"
  ELSE IF ~validateRelayToken(b.relay_token)
       THEN "Invalid relay_token (minimum 32 characters)"
  ELSE NoReason

\* handlePush, lines 118-130
PushError(b) ==
  IF ~b.json THEN "Invalid JSON body"
  ELSE IF b.relay_token.len = 0 \/ b.title = Missing \/ b.body = Missing
       THEN "Missing required fields: relay_token, title, body"
  ELSE IF ~validateRelayToken(b.relay_token)
       THEN "Invalid relay_token (minimum 32 characters)"
  ELSE NoReason

\* json({ok: false, error}, 400)
ErrorResponse(error) == [ok |-> FALSE, error |-> error, status |-> 400]

\* The handler returns the 400 response before it touches env.
Reject(i, op, error) ==
  /\ Slot(i)
  /\ task' = [task EXCEPT ![i] =
       [IdleTask EXCEPT !.op = op, !.pc = "done", !.err = error, !.ret = ErrorResponse(error)]]
  /\ ops' = ops + 1
  /\ UNCHANGED <<store, now, registered, auth, env, genCalls>>

\* handleRegister / handleUnregister / handlePush on a request body.
HandleRegister(i, b) ==
  IF RegisterError(b) # NoReason THEN Reject(i, "register", RegisterError(b))
  ELSE StartRegister(i, b.relay_token.id, b.device_token, b.platform, b.bundle_id)

HandleUnregister(i, b) ==
  IF UnregisterError(b) # NoReason THEN Reject(i, "unregister", UnregisterError(b))
  ELSE StartUnregister(i, b.relay_token.id, b.device_token)

HandlePush(i, b) ==
  IF PushError(b) # NoReason THEN Reject(i, "push", PushError(b))
  ELSE StartPush(i, b.relay_token.id)

\* Requests arrive one after the other.
RouterRegister == \E i \in TaskIds, b \in RegisterRequests :
                    ops < MaxRouterOps /\ Quiescent /\ HandleRegister(i, b)
RouterUnregister == \E i \in TaskIds, b \in UnregisterRequests :
                      ops < MaxRouterOps /\ Quiescent /\ HandleUnregister(i, b)
RouterPush == \E i \in TaskIds, b \in PushRequests :
                ops < MaxRouterOps /\ Quiescent /\ HandlePush(i, b)

NextRouter ==
  RouterRegister \/ RouterUnregister \/ RouterPush \/ PushStep \/ SendStep \/ CredStep
    \/ RegistryStep

SpecRouter == Init /\ [][NextRouter]_vars

\* ================================================================ claims
Has(devices, deviceToken) == \E n \in 1..Len(devices) : devices[n].device_token = deviceToken

\* Task i finished a removeDevice read in this step.
RmReadBy(i) == task[i].pc = "rm_get" /\ task'[i] # task[i]

\* Task i performed the put of addDevice in this step.
AddPutBy(i) == task[i].pc = "add_put" /\ task'[i].pc = "done"

\* C1: every device that list(T) returns was registered by a register request
\* carrying T: a device registered only under another tenant is never listed.
C1_Isolation ==
  \A t \in Tenants : \A n \in 1..Len(getDevices(store, t)) :
    <<t, getDevices(store, t)[n].device_token>> \in registered

C1_Witness ==
  \E d \in Tokens :
    /\ <<1, d>> \in registered /\ <<2, d>> \notin registered
    /\ Has(getDevices(store, 1), d)
    /\ getDevices(store, 2) # <<>>
    /\ \E i \in TaskIds : task[i].op = "purge" /\ task[i].pc = "done"

\* C7: the device_token values of one tenant's stored sequence are pairwise
\* distinct, in every reachable state of the store.
C7_UniqueTokens ==
  \A k \in KeySpace : \A m, n \in 1..Len(store[k].devices) :
    m # n => store[k].devices[m].device_token # store[k].devices[n].device_token

C7_Witness ==
  \E i \in TaskIds :
    /\ task[i].op = "register" /\ task[i].pc = "done"
    /\ Len(task[i].devices) = 2 /\ Has(task[i].devices, task[i].tok)
    /\ Len(getDevices(store, task[i].relay)) = 2

\* C8: the put of add(T, r), when the sequence read for T already holds
\* r.device_token, stores a sequence of the same length in which exactly one
\* record has that token, and that record is r.
C8_ReRegister ==
  [][\A i \in TaskIds :
       (AddPutBy(i) /\ Has(task[i].devices, task[i].tok)) =>
         LET new == getDevices(store', task[i].relay)
         IN /\ Len(new) = Len(task[i].devices)
            /\ Cardinality({n \in 1..Len(new) : new[n].device_token = task[i].tok}) = 1
            /\ \A n \in 1..Len(new) : new[n].device_token = task[i].tok => new[n] = task[i].dev]_vars

C8_Witness ==
  \E i \in TaskIds :
    /\ task[i].op = "register" /\ task[i].pc = "done"
    /\ \E n \in 1..Len(task[i].devices) :
         /\ task[i].devices[n].device_token = task[i].tok
         /\ task[i].devices[n].registered_at < task[i].dev.registered_at
         /\ task[i].devices[n].bundle_id # task[i].dev.bundle_id
    /\ \E n \in 1..Len(getDevices(store, task[i].relay)) :
         getDevices(store, task[i].relay)[n] = task[i].dev

\* C9: a remove(T, d) that reads a sequence of T without d returns false and
\* writes nothing: the store is unchanged and no write step follows.
C9_RemoveUnknown ==
  [][\A i \in TaskIds :
       (RmReadBy(i) /\ ~Has(getDevices(store, task[i].relay), task[i].tok)) =>
         /\ store' = store
         /\ task'[i].pc # "rm_write"
         /\ task'[i].removed = task[i].removed
         /\ task[i].op = "unregister" => (task'[i].pc = "done" /\ task'[i].ret = FALSE)]_vars

C9_Witness ==
  \E i \in TaskIds :
    /\ task[i].op = "unregister" /\ task[i].pc = "done" /\ task[i].ret = FALSE
    /\ getDevices(store, task[i].relay) # <<>>

\* C10: no key of the DeviceStore holds an empty sequence, so list(T) is empty
\* exactly when the key devices:T is absent.
C10_NoEmptyEntry ==
  /\ \A k \in KeySpace : store[k].present => Len(store[k].devices) > 0
  /\ \A t \in Tenants : (getDevices(store, t) = <<>>) <=> (store[key(t)] = Null)

C10_Witness ==
  \E i \in TaskIds :
    /\ task[i].op = "unregister" /\ task[i].pc = "done" /\ task[i].ret = TRUE
    /\ store[key(task[i].relay)] = Null
    /\ <<task[i].relay, task[i].tok>> \in registered

\* The configured TTL of a protocol's cache slot, as the claims state it.
ClaimedTtl(p) == IF p = "apns" THEN JWT_TTL_SECONDS ELSE TOKEN_TTL_SECONDS

\* Frame i received its credential in this step (from the cache or from its own put).
CredReturnedTo(i) ==
  /\ task[i].op \in {"getCredential", "send"}
  /\ task[i].pc \in {"cred_get", "cred_put"}
  /\ task'[i].pc \in {"done", "fetch"}

CredOf(f) == IF f.op = "send" THEN f.cred ELSE f.ret

\* A getCredential frame that returned from the cache / from its own generation.
CacheHit(f) == f.op = "getCredential" /\ f.pc = "done" /\ f.n = 0
Generated(f) == f.op = "getCredential" /\ f.pc = "done" /\ f.n > 0

\* C5 as stated: a credential returned by getCredential is never older, counted
\* from its generation, than the TTL of its protocol.
C5_AgeFromGeneration ==
  [][\A i \in FrameIds :
       CredReturnedTo(i) => now - CredOf(task'[i]).iat <= ClaimedTtl(task[i].proto)]_vars

\* C5 amended: a credential that getCredential returns from the cache was put
\* less than the TTL of its protocol ago (50 min / 55 min, both under the
\* upstream's 60 min): the TTL runs from the store write, not from generation.
C5_AgeFromStore ==
  [][\A i \in FrameIds :
       (CredReturnedTo(i) /\ task[i].pc = "cred_get") =>
         LET slot == auth[AuthKey(task[i].proto)]
         IN /\ slot.present /\ CredOf(task'[i]) = slot.value
            /\ now - slot.stored_at < ClaimedTtl(task[i].proto)
            /\ ClaimedTtl(task[i].proto) < UPSTREAM_VALIDITY_SECONDS]_vars

C5_Witness ==
  \E i \in TaskIds :
    /\ CacheHit(task[i])
    /\ task[i].ret = auth[AuthKey(task[i].proto)].value
    /\ task[i].ret.iat < auth[AuthKey(task[i].proto)].stored_at
    /\ now > auth[AuthKey(task[i].proto)].stored_at

\* C6: a getCredential that reads the slot inside the TTL window of the cached
\* credential returns that very string and generates nothing; one that reads an
\* empty or expired slot starts a generation, and its put stores the new
\* credential with the protocol's TTL and returns it.
C6_CacheOrGenerate ==
  [][\A i \in FrameIds :
       LET f == task[i]
           k == AuthKey(f.proto)
           inWindow == auth[k].present /\ now < auth[k].stored_at + ClaimedTtl(f.proto)
       IN /\ (f.op = "getCredential" /\ f.pc = "cred_get" /\ task'[i] # f) =>
               IF inWindow
               THEN /\ task'[i].pc = "done" /\ task'[i].ret = auth[k].value
                    /\ genCalls' = genCalls /\ auth' = auth
               ELSE /\ task'[i].pc = "sign"
                    /\ genCalls' = [genCalls EXCEPT ![f.proto] = @ + 1]
          /\ (f.op = "getCredential" /\ f.pc = "cred_put" /\ task'[i] # f) =>
               /\ f.cred.n <= genCalls[f.proto]
               /\ f.cred.n = f.n
               /\ auth'[k] = [present |-> TRUE, value |-> f.cred, stored_at |-> now,
                              ttl |-> ClaimedTtl(f.proto)]
               /\ task'[i].pc = "done" /\ task'[i].ret = f.cred]_vars

C6_Witness ==
  \E i, j \in TaskIds :
    /\ task[i].proto = task[j].proto
    /\ CacheHit(task[i]) /\ task[i].ret.n = 1
    /\ Generated(task[j]) /\ task[j].ret.n = 2
    /\ task[j].ret.iat >= ClaimedTtl(task[j].proto)
    /\ genCalls[task[j].proto] = 2

\* Task i returned the response of its dispatch in this step.
PushReturnedBy(i) ==
  task[i].op = "push" /\ task[i].pc = "push_wait" /\ task'[i].pc = "done"

\* C2: when a dispatch (with no registration running beside it) returns status
\* removed for a device token, that token is in no tenant's entry at the moment
\* the dispatch returns.
C2_RemovedIsGone ==
  [][\A i \in TaskIds :
       PushReturnedBy(i) =>
         \A n \in 1..Len(task[i].devices) :
           task'[i].ret.results[n].status = "removed" =>
             \A t \in Tenants :
               ~Has(getDevices(store', t), task[i].devices[n].device_token)]_vars

\* C3: no send ever raises, so no dispatch is ever aborted by one of its sends.
C3_SendNeverRaises ==
  \A i \in FrameIds : task[i].op \in {"send", "push"} => task[i].pc # "raised"

\* C4: a send whose credential acquisition failed reports status failed with
\* the credential error's message, and the dispatch is not aborted: it returns
\* one result per device.
C4_CredentialFailureReported ==
  /\ \A s \in SendIds :
       (task[s].op = "send" /\ task[s].err # NoReason) =>
         /\ task[s].pc = "done"
         /\ task[s].ret.status = "failed"
         /\ task[s].ret.reason = task[s].err
  /\ \A i \in TaskIds :
       task[i].op = "push" =>
         /\ task[i].pc # "raised"
         /\ task[i].pc = "done" => Len(task[i].ret.results) = Len(task[i].devices)

\* The tenants whose entry holds the device token.
Entries(kv, deviceToken) == {t \in Tenants : Has(getDevices(kv, t), deviceToken)}

\* C11: with no other writer beside it, removeDeviceGlobally(d) starts counting
\* at 0, and each of its steps keeps (entries removed so far) + (entries still
\* holding d) constant, changes no entry that does not hold d and no record
\* other than d's; when it returns, no entry holds d and the value returned is
\* the count. So it returns the number N of entries that held d at the call
\* and has removed d from all N, leaving everything else as it was.
C11_PurgeAll ==
  [][\A i \in TaskIds :
       LET f == task[i]
           g == task'[i]
           d == IF Free(i) THEN g.tok ELSE f.tok
       IN /\ (Free(i) /\ g # f /\ g.op = "purge") =>
               (g.pc = "list" /\ g.removed = 0 /\ g.cursor = 0 /\ store' = store)
          /\ (~Free(i) /\ g # f /\ f.op = "purge") =>
               /\ g.removed + Cardinality(Entries(store', d))
                    = f.removed + Cardinality(Entries(store, d))
               /\ \A t \in Tenants :
                    /\ filterOut(getDevices(store', t), d) = filterOut(getDevices(store, t), d)
                    /\ t \notin Entries(store, d) => store'[key(t)] = store[key(t)]
               /\ g.pc = "done" => (Entries(store', d) = {} /\ g.ret = g.removed)]_vars

C11_Witness ==
  \E i \in TaskIds :
    /\ task[i].op = "purge" /\ task[i].pc = "done" /\ task[i].ret = 2
    /\ ops = 4 /\ registered = {<<1, task[i].tok>>, <<2, task[i].tok>>, <<1, "d2">>}
    /\ task[i].tok = "d1"
    /\ Len(getDevices(store, 1)) = 1 /\ getDevices(store, 1)[1].device_token = "d2"
    /\ store[key(2)] = Null

\* The response of handlePush for a tenant without devices.
NoDevicesResponse == [ok |-> TRUE, results |-> <<>>, message |-> "No devices registered"]

\* C12: a dispatch that reads an empty device list for its tenant returns at
\* once with no results and the message 'No devices registered'; it starts no
\* send (so no delivery request), no credential generation or exchange, and
\* writes nothing.
C12_EmptyDispatch ==
  [][\A i \in TaskIds :
       (/\ task[i].op = "push" /\ task[i].pc = "push_get" /\ task'[i] # task[i]
        /\ getDevices(store, task[i].relay) = <<>>) =>
         /\ task'[i].pc = "done" /\ task'[i].ret = NoDevicesResponse
         /\ \A s \in SendsOf(i) : Free(s)
         /\ \A s \in SendIds : task'[s] = task[s]
         /\ genCalls' = genCalls /\ auth' = auth /\ store' = store]_vars

C12_Witness ==
  \E i \in TaskIds :
    /\ task[i].op = "push" /\ task[i].pc = "done" /\ task[i].ret = NoDevicesResponse
    /\ getDevices(store, task[i].relay) = <<>>
    /\ \E t \in Tenants : getDevices(store, t) # <<>>
    /\ \A p \in Protocols : genCalls[p] = 0
    /\ \A s \in SendIds : task[s] = IdleTask

\* C13: a dispatch that read n >= 1 devices and has come back to its caller
\* returned n results, the k-th carrying the platform of the k-th device read.
C13_OneResultPerDevice ==
  \A i \in TaskIds :
    (task[i].op = "push" /\ Free(i) /\ Len(task[i].devices) >= 1) =>
      /\ task[i].pc = "done"
      /\ Len(task[i].ret.results) = Len(task[i].devices)
      /\ \A k \in 1..Len(task[i].devices) :
           task[i].ret.results[k].platform = task[i].devices[k].platform

\* The dispatch of task i came back to its caller in this step, with a response
\* or with an error.
PushLeftBy(i) ==
  task[i].op = "push" /\ task[i].pc = "push_wait" /\ task'[i].pc \in {"done", "raised"}

\* C14: at the moment a dispatch comes back to its caller, every one of its
\* sends has produced its result.
C14_AllSendsFinished ==
  [][\A i \in TaskIds :
       PushLeftBy(i) =>
         \A n \in 1..Len(task[i].devices) :
           /\ task[SendId(i, n)].pc = "done"
           /\ task[SendId(i, n)].ret.status \in {"sent", "failed", "removed"}]_vars

\* A step of the refresh that scheduled() started in frame i.
CronStepOf(i) == CredSign(i) \/ CredPut(i) \/ \E ok \in BOOLEAN : CredExchange(i, ok)

\* C15: in a scheduled run no refresh ever rejects, so the run does not fail; a
\* refresh whose key import, signing or token exchange fails ends with its
\* error logged; whatever happened to the other refresh, a refresh that has not
\* ended can take its next step, and one that ends without an error ends with
\* the put of its credential under the TTL of its protocol.
C15_RefreshesIndependent ==
  /\ [](\A i \in CronIds :
          task[i].op = "scheduled" =>
            /\ task[i].pc # "raised"
            /\ ~Free(i) => ENABLED CronStepOf(i))
  /\ [][\A i \in CronIds :
          (task[i].op = "scheduled" /\ ~Free(i) /\ task'[i].pc = "done") =>
            LET f == task[i]
                k == AuthKey(f.proto)
            IN IF f.pc = "sign" \/ (f.pc = "exchange" /\ task'[i].cred = f.cred)
               THEN /\ task'[i].err \in {KeyImportError, ExchangeError}
                    /\ auth' = auth
               ELSE /\ f.pc = "cred_put" /\ task'[i].err = NoReason
                    /\ f.cred.kind = (IF f.proto = "apns" THEN "apns_jwt" ELSE "fcm_access_token")
                    /\ auth' = [auth EXCEPT ![k] =
                         [present |-> TRUE, value |-> f.cred, stored_at |-> now,
                          ttl |-> ClaimedTtl(f.proto)]]]_vars

C15_Witness ==
  /\ task[1].op = "scheduled" /\ task[1].pc = "done" /\ task[1].err = KeyImportError
  /\ task[2].op = "scheduled" /\ task[2].pc = "done" /\ task[2].err = NoReason
  /\ auth[AuthKey("apns")] = EmptySlot
  /\ auth[AuthKey("fcm")].present /\ auth[AuthKey("fcm")].value = task[2].cred
  /\ task[2].cred.kind = "fcm_access_token"

\* C18: scheduled() never starts the refresh of a protocol one of whose secrets
\* is not set, and the cache slot of such a protocol stays as it was at the
\* start (empty) through every scheduled run.
C18_OnlyConfigured ==
  \A p \in Protocols :
    LET configured == IF p = "apns"
                      THEN env["apns"] # "" /\ env["APNS_KEY_ID"] # "" /\ env["APNS_TEAM_ID"] # ""
                      ELSE env["fcm"] # "" /\ env["FCM_CLIENT_EMAIL"] # ""
    IN ~configured =>
         /\ \A i \in CronIds : ~(task[i].op = "scheduled" /\ task[i].proto = p)
         /\ auth[AuthKey(p)] = EmptySlot
         /\ genCalls[p] = 0

C18_Witness ==
  /\ ops = 2
  /\ env["fcm"] = "valid" /\ env["FCM_CLIENT_EMAIL"] = ""
  /\ task[1].op = "scheduled" /\ task[1].pc = "done" /\ task[1].err = NoReason
  /\ auth[AuthKey("apns")].present /\ auth[AuthKey("apns")].value.n = 2
  /\ task[2] = IdleTask
  /\ auth[AuthKey("fcm")] = EmptySlot

\* A refreshCredential frame that has returned successfully.
Refreshed(f) == f.op = "refresh" /\ f.pc = "done"

\* C16 as stated: once refreshCredential(p) has succeeded, and as long as no
\* generation for p has been started after the one of that refresh, the cache
\* of p holds the credential of that refresh (or has expired).
C16_UntilNextGeneration ==
  \A i \in TaskIds :
    (Refreshed(task[i]) /\ genCalls[task[i].proto] = task[i].cred.n) =>
      authGet(auth, AuthKey(task[i].proto), now) \in {task[i].cred, NoCred}

\* C16 amended: refreshCredential(p) starts a generation without looking at
\* the cache; its put replaces whatever the slot holds, expired or not, by the
\* credential of that generation with the full TTL of p counted from the put.
\* The slot changes only by a put for p, and a getCredential(p) that reads the
\* slot inside its TTL window returns the credential of the latest put: the
\* refreshed credential until the next put for p, which may come from a
\* generation that started before the refresh.
C16_RefreshOverwrites ==
  [][\A i \in TaskIds :
       LET f == task[i]
           g == task'[i]
           k == AuthKey(IF Free(i) THEN g.proto ELSE f.proto)
       IN /\ (Free(i) /\ g # f /\ g.op = "refresh") =>
               /\ g.pc = "sign" /\ g.iat = now
               /\ g.n = genCalls[g.proto] + 1 /\ genCalls'[g.proto] = g.n
               /\ auth' = auth
          /\ (f.op = "refresh" /\ f.pc = "cred_put" /\ g # f) =>
               /\ f.cred.n = f.n
               /\ auth' = [auth EXCEPT ![k] =
                    [present |-> TRUE, value |-> f.cred, stored_at |-> now,
                     ttl |-> ClaimedTtl(f.proto)]]
               /\ Refreshed(g)
          /\ (f.op = "getCredential" /\ f.pc = "cred_get" /\ g # f
                /\ authGet(auth, k, now) # NoCred) =>
               (g.pc = "done" /\ g.ret = auth[k].value)
          /\ \A p \in Protocols :
               auth'[AuthKey(p)] # auth[AuthKey(p)] =>
                 \E j \in TaskIds :
                   /\ task[j].pc = "cred_put" /\ task[j].proto = p /\ task'[j] # task[j]
                   /\ auth'[AuthKey(p)].value = task[j].cred]_vars

C16_Witness ==
  \E i, j \in TaskIds :
    /\ Refreshed(task[i]) /\ task[i].cred.n = 2
    /\ Generated(task[j]) /\ task[j].proto = task[i].proto /\ task[j].ret.n = 1
    /\ auth[AuthKey(task[i].proto)] =
         [present |-> TRUE, value |-> task[i].cred, stored_at |-> TickSeconds,
          ttl |-> ClaimedTtl(task[i].proto)]
    /\ now = TickSeconds

\* Frame i runs getCredential or refreshCredential.
CredCall(i) == task[i].op \in {"getCredential", "refresh"}

\* C17: a generation whose key cannot be imported (or whose signing fails), or
\* whose token exchange is answered with a non-success status, makes
\* getCredential / refreshCredential throw that error; the call has written
\* nothing: a call fails only before its put, and none of its steps before the
\* put changes the cache.
C17_FailureStoresNothing ==
  [][\A i \in TaskIds :
       LET f == task[i]
           g == task'[i]
       IN /\ (CredCall(i) /\ f.pc = "sign" /\ g # f /\ env[f.proto] # "valid") =>
               (g.pc = "raised" /\ g.err = KeyImportError /\ g.ret = KeyImportError)
          /\ (CredCall(i) /\ CredExchange(i, FALSE)) =>
               (g.pc = "raised" /\ g.err = ExchangeError /\ g.ret = ExchangeError)
          /\ (CredCall(i) /\ f.pc # "raised" /\ g.pc = "raised") =>
               (f.pc \in {"sign", "exchange"} /\ auth' = auth)
          /\ (CredCall(i) /\ f.pc \in {"cred_get", "sign", "exchange"} /\ g # f) =>
               auth' = auth]_vars

C17_Witness ==
  \E i \in TaskIds :
    /\ task[i].op = "refresh" /\ task[i].pc = "raised" /\ task[i].err = ExchangeError
    /\ task[i].n = 2
    /\ auth[AuthKey("fcm")].present /\ auth[AuthKey("fcm")].value.n = 1
    /\ auth[AuthKey("fcm")].value.kind = "fcm_access_token"

\* handleUnregister returned its response in this step.
UnregisterReturnedBy(i) ==
  task[i].op = "unregister" /\ task[i].pc \in {"rm_get", "rm_write"} /\ task'[i].pc = "done"

\* The message of the response of handleUnregister for the value of removeDevice.
UnregisterMessage(found) == IF found THEN "Device removed" ELSE "Device not found"

\* C19: unregister(T, d) always comes back with a success response; it reports
\* not found exactly when the list of T it read did not hold d, and removed
\* when it did; either way d is not in T's list when it returns.
C19_UnregisterReport ==
  [][\A i \in TaskIds :
       LET f == task[i]
       IN /\ (f.op = "unregister" /\ f.pc = "rm_get" /\ task'[i] # f) =>
               IF Has(getDevices(store, f.relay), f.tok)
               THEN task'[i].pc = "rm_write"
               ELSE task'[i].pc = "done" /\ UnregisterMessage(task'[i].ret) = "Device not found"
          /\ (f.op = "unregister" /\ f.pc = "rm_write" /\ task'[i] # f) =>
               task'[i].pc = "done" /\ UnregisterMessage(task'[i].ret) = "Device removed"
          /\ UnregisterReturnedBy(i) =>
               /\ task'[i].ret \in BOOLEAN
               /\ ~Has(getDevices(store', f.relay), f.tok)
          /\ f.op = "unregister" => task'[i].pc # "raised"]_vars

C19_Witness ==
  \E i, j \in TaskIds :
    /\ i # j /\ task[i].relay = task[j].relay /\ task[i].tok = task[j].tok
    /\ task[i].op = "unregister" /\ task[i].pc = "done" /\ task[i].ret = TRUE
    /\ task[j].op = "unregister" /\ task[j].pc = "done" /\ task[j].ret = FALSE
    /\ <<task[i].relay, task[i].tok>> \in registered
    /\ ~Has(getDevices(store, task[i].relay), task[i].tok)

\* Bodies that validation has to reject: not JSON, a required field missing,
\* a relay_token of fewer than 32 characters, a platform other than ios / android.
BadRegister(b) ==
  \/ ~b.json \/ b.relay_token.len < 32 \/ b.device_token = Missing
  \/ b.platform \notin {"ios", "android"}
BadUnregister(b) == ~b.json \/ b.relay_token.len < 32 \/ b.device_token = Missing
BadPush(b) == ~b.json \/ b.relay_token.len < 32 \/ b.title = Missing \/ b.body = Missing

\* The request taken by handler i in this step came back at once with a 400
\* error response, and nothing else changed: no store write, no credential
\* generation or cache write, no register / remove / send started.
RejectedWithoutEffect(i) ==
  /\ task'[i].pc = "done"
  /\ task'[i].ret.ok = FALSE /\ task'[i].ret.status = 400 /\ task'[i].ret.error # NoReason
  /\ store' = store /\ auth' = auth /\ genCalls' = genCalls /\ registered' = registered
  /\ \A j \in FrameIds \ {i} : task'[j] = task[j] /\ Free(j)

\* C20: a register, unregister or push request whose body is invalid JSON,
\* lacks a required field, carries a relay_token shorter than 32 characters or
\* (register) a platform other than ios / android is answered with an error
\* response and has no effect.
C20_RejectedNoEffect ==
  [][\A i \in TaskIds : (Slot(i) /\ ops' # ops) =>
       /\ task'[i].op = "register" => \A b \in RegisterRequests :
            (BadRegister(b) /\ HandleRegister(i, b)) => RejectedWithoutEffect(i)
       /\ task'[i].op = "unregister" => \A b \in UnregisterRequests :
            (BadUnregister(b) /\ HandleUnregister(i, b)) => RejectedWithoutEffect(i)
       /\ task'[i].op = "push" => \A b \in PushRequests :
            (BadPush(b) /\ HandlePush(i, b)) => RejectedWithoutEffect(i)]_vars

C20_Witness ==
  \E i \in TaskIds, t \in Tenants :
    /\ task[i].op = "register" /\ task[i].pc = "done"
    /\ task[i].err = "platform must be \"ios\" or \"android\""
    /\ task[i].ret = [ok |-> FALSE, error |-> task[i].err, status |-> 400]
    /\ ops = 2 /\ registered = {<<t, "d1">>}
    /\ Len(getDevices(store, t)) = 1
    /\ \A p \in Protocols : genCalls[p] = 0

\* The send of frame s came back from removeDeviceGlobally and returned in this step.
SendPurgedBy(s) ==
  /\ task[s].op = "send" /\ task[s].pc \in {"list", "rm_get", "rm_write"}
  /\ task'[s].pc = "done"

\* C21: a Platform A send that receives a response returns sent for a 2xx;
\* for a 410 it starts removeDeviceGlobally for its device token and then
\* returns removed with the reason the upstream reported; for any other
\* response it returns failed with the reported reason, or the HTTP status when
\* none is reported, and leaves the registry alone.
C21_ApnsOutcomes ==
  [][\A s \in SendIds :
       LET f == task[s]
           g == task'[s]
       IN /\ \A r \in Responses("apns") :
               (f.op = "send" /\ f.proto = "apns" /\ ~r.net /\ SendFetch(s, r)) =>
                 IF r.status >= 200 /\ r.status <= 299
                 THEN g.pc = "done" /\ g.ret = PushResult("ios", "sent", NoReason)
                 ELSE IF r.status = 410
                 THEN /\ g.pc \in {"list", "rm_get"} /\ g.tok = f.tok /\ g.removed = 0
                      /\ g.reason = (IF r.code # NoReason THEN r.code ELSE "Unregistered")
                 ELSE /\ g.pc = "done"
                      /\ g.ret = PushResult("ios", "failed",
                                   IF r.code # NoReason THEN r.code ELSE HttpReason(r.status))
          /\ (SendPurgedBy(s) /\ f.proto = "apns") =>
               g.ret = PushResult("ios", "removed", f.reason)
          /\ (f.op = "send" /\ f.proto = "apns" /\ f.pc = "fetch" /\ g # f) => store' = store]_vars

\* C22: a Platform B send that receives a response returns sent for a 2xx;
\* for an error status UNREGISTERED or NOT_FOUND it starts
\* removeDeviceGlobally for its device token and then returns removed; for any
\* other error it returns failed with the upstream's error message, or the
\* HTTP status when there is none, and leaves the registry alone.
C22_FcmOutcomes ==
  [][\A s \in SendIds :
       LET f == task[s]
           g == task'[s]
       IN /\ \A r \in Responses("fcm") :
               (f.op = "send" /\ f.proto = "fcm" /\ ~r.net /\ SendFetch(s, r)) =>
                 IF r.status >= 200 /\ r.status <= 299
                 THEN g.pc = "done" /\ g.ret = PushResult("android", "sent", NoReason)
                 ELSE IF r.code \in {"UNREGISTERED", "NOT_FOUND"}
                 THEN /\ g.pc \in {"list", "rm_get"} /\ g.tok = f.tok /\ g.removed = 0
                      /\ g.reason = r.code
                 ELSE /\ g.pc = "done"
                      /\ g.ret = PushResult("android", "failed",
                                   IF r.message # NoReason THEN r.message
                                   ELSE HttpReason(r.status))
          /\ (SendPurgedBy(s) /\ f.proto = "fcm") =>
               g.ret = PushResult("android", "removed", f.reason)
          /\ (f.op = "send" /\ f.proto = "fcm" /\ f.pc = "fetch" /\ g # f) => store' = store]_vars

\* The credential a delivery request of protocol p has to carry: the ES256 JWT
\* for APNs, the OAuth2 access token for FCM.
CredentialKind(p) == IF p = "apns" THEN "apns_jwt" ELSE "fcm_access_token"

\* C23: each send of a dispatch is of the protocol of its device's platform and
\* is addressed to that device's token; the credential it takes along to the
\* delivery request is the one held by its own protocol's cache slot at that
\* moment and is of its protocol's kind; each cache slot only ever holds a
\* credential of its own protocol.
C23_NoConflation ==
  /\ [](/\ \A p \in Protocols :
             auth[AuthKey(p)].present => auth[AuthKey(p)].value.kind = CredentialKind(p)
        /\ \A s \in SendIds :
             (task[s].op = "send" /\ task[s].pc = "fetch") =>
               task[s].cred.kind = CredentialKind(task[s].proto)
        /\ \A i \in TaskIds :
             (task[i].op = "push" /\ task[i].pc = "push_wait") =>
               \A n \in 1..Len(task[i].devices) :
                 /\ task[SendId(i, n)].op = "send"
                 /\ task[SendId(i, n)].tok = task[i].devices[n].device_token
                 /\ PlatformOf(task[SendId(i, n)].proto) = task[i].devices[n].platform)
  /\ [][\A s \in SendIds :
          (task[s].op = "send" /\ task[s].pc # "fetch" /\ task'[s].pc = "fetch") =>
            /\ auth'[AuthKey(task[s].proto)].present
            /\ task'[s].cred = auth'[AuthKey(task[s].proto)].value]_vars

C23_Witness ==
  \E i \in TaskIds :
    /\ task[i].op = "push" /\ task[i].pc = "done" /\ Len(task[i].devices) = 2
    /\ task[i].devices[1].platform = "android" /\ task[i].devices[2].platform = "ios"
    /\ task[SendId(i, 1)].cred.kind = "fcm_access_token"
    /\ task[SendId(i, 2)].cred.kind = "apns_jwt"
    /\ task[i].ret.results = <<PushResult("android", "sent", NoReason),
                                PushResult("ios", "sent", NoReason)>>
    /\ \A p \in Protocols : auth[AuthKey(p)].present

\* C24: whatever the Protocol B slot holds is an access token, never the signed
\* assertion; a frame gets from the exchange to the put of the Protocol B slot
\* only by a success response of the token endpoint, and the put stores the
\* token of that response.
C24_OnlyAccessTokens ==
  /\ [](auth[AuthKey("fcm")].present =>
          auth[AuthKey("fcm")].value.kind = "fcm_access_token")
  /\ [][\A i \in FrameIds :
          LET f == task[i]
              g == task'[i]
          IN /\ (f.proto = "fcm" /\ g.pc = "cred_put" /\ f.pc # "cred_put") =>
                  /\ f.pc = "exchange" /\ f.cred.kind = "fcm_assertion"
                  /\ CredExchange(i, TRUE) /\ ~CredExchange(i, FALSE)
                  /\ g.cred = [kind |-> "fcm_access_token", iat |-> now, n |-> f.n]
             /\ (f.proto = "fcm" /\ f.pc = "cred_put" /\ g # f) =>
                  auth'[AuthKey("fcm")].value = f.cred]_vars

C24_Witness ==
  \E i, j \in TaskIds :
    /\ task[i].proto = "fcm" /\ task[i].pc = "exchange" /\ task[i].cred.kind = "fcm_assertion"
    /\ task[j].proto = "fcm" /\ task[j].pc = "raised" /\ task[j].err = ExchangeError
    /\ auth[AuthKey("fcm")].present /\ auth[AuthKey("fcm")].value.n = 1
    /\ auth[AuthKey("fcm")].value.kind = "fcm_access_token"


\* Frame i holds a refresh of scheduled() that has not ended.
RefreshInFlight(i) == task[i].op = "scheduled" /\ ~Free(i)

\* The first scheduled refresh of p (triggered at time 0) has completed.
FirstRefreshDone(p) ==
  ops >= 1 /\ \A i \in CronFrames(p) : ~(RefreshInFlight(i) /\ task[i].iat = 0)

\* The slot of p holds a credential that has not expired.
SlotLive(p) == authGet(auth, AuthKey(p), now) # NoCred

\* getCredential for p on the request path reads the cache in this step.
RequestReads(p) == task[RequestFrame].proto = p /\ CredGet(RequestFrame)

\* The refresh of p in flight, if any, is within (TTL - Cron interval) of its trigger.
Timely(p) ==
  \A i \in CronFrames(p) :
    RefreshInFlight(i) => now - task[i].iat < ClaimedTtl(p) - CRON_INTERVAL_SECONDS

\* C25 as stated: with a successful refresh every 45 minutes, from the
\* completion of the first refresh on the slot of each protocol always holds a
\* credential that has not expired, and getCredential on the request path
\* always returns from the cache.
C25_AlwaysCached ==
  /\ [](\A p \in Protocols : FirstRefreshDone(p) => SlotLive(p))
  /\ [][\A p \in Protocols : FirstRefreshDone(p) /\ RequestReads(p)
          => CacheHit(task'[RequestFrame])]_vars

\* C25, amended: with a successful refresh every 45 minutes, from the
\* completion of the first refresh on, the slot of a protocol holds a
\* credential that has not expired and getCredential on the request path returns
\* from the cache, as long as the refresh in flight has taken less than the TTL
\* minus the Cron interval (5 minutes for APNs, 10 minutes for FCM).
C25_CachedWhileTimely ==
  /\ [](\A p \in Protocols : FirstRefreshDone(p) /\ Timely(p) => SlotLive(p))
  /\ [][\A p \in Protocols : FirstRefreshDone(p) /\ Timely(p) /\ RequestReads(p)
          => CacheHit(task'[RequestFrame])]_vars

\* After the second Cron event a request is served the credential of the second refresh.
C25_Witness ==
  /\ ops = 2
  /\ now > CRON_INTERVAL_SECONDS
  /\ CacheHit(task[RequestFrame])
  /\ task[RequestFrame].ret.n = 2


\* Frame i runs getCredential and has not returned.
GetInFlight(i) == task[i].op = "getCredential" /\ ~Free(i)

\* Frame i runs getCredential and found the cache of its protocol cold.
ColdMiss(i) == task[i].op = "getCredential" /\ task[i].pc = "sign"

\* C26: getCredential does not depend on the scheduled refresh. With the
\* refresh never run and generation succeeding, every getCredential call
\* returns; a call that found the cache cold (empty or expired) returns the
\* credential it generated itself, and at its return that credential is what
\* the cache of its protocol holds.
C26_ColdGetReturns ==
  /\ \A i \in TaskIds : GetInFlight(i) ~> (task[i].op = "getCredential" /\ task[i].pc = "done")
  /\ \A i \in TaskIds : ColdMiss(i) ~> Generated(task[i])
  /\ [][\A i \in TaskIds : task[i].op = "getCredential" /\ CredPut(i)
          => /\ Generated(task'[i])
             /\ authGet(auth', AuthKey(task[i].proto), now) = task'[i].ret]_vars

\* A call that found the cache expired has generated, stored and returned the
\* second credential of its protocol.
C26_Witness == \E i \in TaskIds :
  /\ Generated(task[i])
  /\ task[i].n = 2
  /\ task[i].iat > 0
  /\ auth[AuthKey(task[i].proto)].value = task[i].ret


\* Task i performed the write of removeDevice in this step.
RmWriteBy(i) == task[i].pc = "rm_write" /\ task'[i] # task[i]

\* C27: addDevice and removeDevice are unsynchronised read-modify-writes. The
\* entry a mutation writes is computed from the sequence it read, whatever was
\* written in between, so the stored sequence is that of the last write and
\* the update of an overlapping mutation is lost.
C27_LastWriteWins ==
  [][\A i \in TaskIds :
       /\ AddPutBy(i) => getDevices(store', task[i].relay)
                           = addDeviceList(task[i].devices, task[i].dev)
       /\ RmWriteBy(i) => getDevices(store', task[i].relay) = task[i].devices]_vars

\* Two overlapping registrations of different tokens under one tenant have
\* both returned, nothing else ran, and the entry holds one of the two devices.
C27_Witness ==
  /\ ops = 2
  /\ \A i \in TaskIds : task[i].op = "register" /\ task[i].pc = "done"
  /\ task[1].relay = task[2].relay
  /\ task[1].tok # task[2].tok
  /\ Len(getDevices(store, task[1].relay)) = 1
  /\ \E i \in TaskIds : getDevices(store, task[1].relay) = <<task[i].dev>>


\* Frame j runs removeDeviceGlobally and has not returned.
PurgeInFlight(j) == task[j].op = "purge" /\ ~Free(j)

\* Frame j took a step of removeDeviceGlobally.
PurgeStepBy(j) == PurgeInFlight(j) /\ task'[j] # task[j]

\* C28: removeDeviceGlobally is not atomic across entries. Each of its steps
\* changes at most the one entry it is visiting, and while it is scanning the
\* put of a registration is free to run, so a registration can land behind the
\* scan or write the token back.
C28_PurgeNotAtomic ==
  /\ [][\A j \in TaskIds : PurgeStepBy(j) =>
          \A t \in Tenants : t # task[j].relay => store'[key(t)] = store[key(t)]]_vars
  /\ [](\A j \in TaskIds, i \in TaskIds :
          PurgeInFlight(j) /\ task[i].pc = "add_put" => ENABLED AddPut(i))

\* removeDeviceGlobally has returned after removing the token from an entry,
\* and a registration that had read the entry before the removal has put the
\* token back: the purged token is present in a tenant's entry.
C28_Witness == \E j \in TaskIds, i \in TaskIds :
  /\ task[j].op = "purge" /\ task[j].pc = "done" /\ task[j].ret = 1
  /\ task[i].op = "register" /\ task[i].pc = "done" /\ task[i].tok = task[j].tok
  /\ Has(task[i].devices, task[j].tok)
  /\ task[i].relay \in Entries(store, task[j].tok)


\* The tenants whose key exists.
Existing(kv) == {t \in Tenants : kv[key(t)] # Null}

\* The tenants a scan in frame f has still to deal with: the one whose
\* removeDevice is running, those on the rest of the page, and those whose key
\* exists beyond the cursor when another page is to be listed.
Visiting(f) == IF f.pc \in {"rm_get", "rm_write"} THEN {f.relay} ELSE {}
OnPage(f) == {relayOf(f.keys[m]) : m \in 1..Len(f.keys)}
Beyond(f, kv) ==
  IF f.pc = "list" \/ f.cursor # 0 THEN {t \in Existing(kv) : t > f.cursor} ELSE {}
Pending(f, kv) == Visiting(f) \cup OnPage(f) \cup Beyond(f, kv)

\* Frame j finished the removeDevice of the entry it is visiting in this step.
RemoveAppliedBy(j) ==
  /\ task[j].pc \in {"rm_get", "rm_write"}
  /\ task'[j] # task[j]
  /\ task'[j].pc # "rm_write"

\* C29: removeDeviceGlobally follows the cursors until the listing is
\* exhausted. When it starts, every existing key is ahead of it; a key leaves
\* what is ahead of it only by having removeDevice applied or by being deleted
\* by someone else; the scan returns only with nothing ahead of it. Its count
\* goes up by one exactly with each removeDevice that found the token, and it
\* returns the count.
C29_FollowsCursors ==
  [][\A j \in TaskIds :
       LET f == task[j]
           g == task'[j]
       IN /\ (Free(j) /\ g # f /\ g.op = "purge") => Pending(g, store') = Existing(store')
          /\ PurgeInFlight(j) =>
               \A t \in Pending(f, store) :
                 \/ t \in Pending(g, store')
                 \/ (t = f.relay /\ RemoveAppliedBy(j))
                 \/ (store'[key(t)] = Null /\ g = f)
          /\ PurgeStepBy(j) =>
               /\ f.pc = "rm_get" => (g.pc = "rm_write" <=> Has(getDevices(store, f.relay), f.tok))
               /\ g.removed = f.removed + (IF f.pc = "rm_write" THEN 1 ELSE 0)
               /\ g.pc = "done" => (g.ret = f.removed + (IF f.pc = "rm_write" THEN 1 ELSE 0)
                                    /\ Pending(g, store') = {})]_vars

\* A scan over two pages has returned 2: the token was registered under both
\* tenants and both entries are gone.
C29_Witness == \E j \in TaskIds :
  /\ task[j].op = "purge" /\ task[j].pc = "done" /\ task[j].ret = 2
  /\ ops = 3
  /\ registered = {<<1, task[j].tok>>, <<2, task[j].tok>>}
  /\ Existing(store) = {}


\* C30: removeDeviceGlobally terminates. Every scan in flight returns, also
\* with other requests interleaved and with its own removals deleting keys of
\* the listing; it returns only after the page marked complete (no cursor
\* left, nothing left on the page), and what it returns is its count.
C30_PurgeTerminates ==
  /\ \A j \in TaskIds : PurgeInFlight(j) ~> (task[j].op = "purge" /\ task[j].pc = "done")
  /\ [][\A j \in TaskIds : PurgeStepBy(j) /\ task'[j].pc = "done"
          => /\ task[j].cursor = 0 /\ task[j].keys = <<>>
             /\ task'[j].ret = task'[j].removed]_vars

\* A scan has deleted the key of the first page (the entry held the token
\* only), gone on to the second page and returned 1.
C30_Witness == \E j \in TaskIds :
  /\ task[j].op = "purge" /\ task[j].pc = "done" /\ task[j].ret = 1
  /\ <<1, task[j].tok>> \in registered
  /\ store[key(1)] = Null
  /\ task[j].relay = 2
  /\ store[key(2)] # Null


\* The effect of add on a sequence: the records of other tokens keep content
\* and order, a record of the token is replaced where it stands, a new one is
\* put at the end.
AddEffect(old, new, device) ==
  /\ filterOut(new, device.device_token) = filterOut(old, device.device_token)
  /\ IF Has(old, device.device_token)
     THEN /\ Len(new) = Len(old)
          /\ new[findIndex(old, device.device_token) + 1] = device
     ELSE new = Append(old, device)

\* Frame i wrote in this step and left the entries of the other tenants alone.
OthersUntouched(i) == \A t \in Tenants : t # task[i].relay => store'[key(t)] = store[key(t)]

\* C31 as stated: the put of add(T, r) and the write of remove(T, d) change,
\* in the entry of T as it stands, only the record of their token; every other
\* record keeps content and order, an existing token is replaced at its
\* position, a new one is appended; no other tenant's entry is written.
C31_OnlyOwnRecord ==
  [][\A i \in TaskIds :
       /\ AddPutBy(i) =>
            /\ AddEffect(getDevices(store, task[i].relay),
                         getDevices(store', task[i].relay), task[i].dev)
            /\ OthersUntouched(i)
       /\ RmWriteBy(i) =>
            /\ getDevices(store', task[i].relay)
                 = filterOut(getDevices(store, task[i].relay), task[i].tok)
            /\ OthersUntouched(i)]_vars

\* C31, amended: add(T, r) and remove(T, d) write the sequence they read with
\* only the record of their token changed (others keep content and order, an
\* existing token is replaced at its position, a new one is appended), and
\* write no other tenant's entry; measured against the entry as it stands at
\* the write this holds when no other write to T's entry fell between the read
\* and the write.
C31_OnlyOwnRecordOfRead ==
  [][\A i \in TaskIds :
       /\ AddPutBy(i) =>
            /\ AddEffect(task[i].devices, getDevices(store', task[i].relay), task[i].dev)
            /\ getDevices(store, task[i].relay) = task[i].devices =>
                 AddEffect(getDevices(store, task[i].relay),
                           getDevices(store', task[i].relay), task[i].dev)
            /\ OthersUntouched(i)
       /\ RmReadBy(i) =>
            /\ store' = store
            /\ task'[i].pc = "rm_write" =>
                 task'[i].devices = filterOut(getDevices(store, task[i].relay), task[i].tok)
       /\ RmWriteBy(i) =>
            /\ getDevices(store', task[i].relay) = task[i].devices
            /\ filterOut(getDevices(store, task[i].relay), task[i].tok) = task[i].devices =>
                 getDevices(store', task[i].relay)
                   = filterOut(getDevices(store, task[i].relay), task[i].tok)
            /\ OthersUntouched(i)]_vars

\* A registration has replaced the record of its token at the first of two
\* positions, and the other tenant has an entry.
C31_Witness == \E i \in TaskIds :
  /\ task[i].op = "register" /\ task[i].pc = "done"
  /\ Len(task[i].devices) = 2
  /\ task[i].devices[1].device_token = task[i].tok
  /\ task[i].devices[1] # task[i].dev
  /\ getDevices(store, task[i].relay) = <<task[i].dev, task[i].devices[2]>>


\* The answer r of the upstream of protocol p reports the token as gone for good.
PermanentInvalidity(p, r) ==
  /\ ~r.net /\ ~ResOk(r)
  /\ IF p = "apns" THEN r.status = 410
     ELSE ~r.null /\ r.code \in {"UNREGISTERED", "NOT_FOUND"}

\* The answer r is a failed delivery: fetch threw, or the status is not a
\* success and not a permanent invalidity.
DeliveryError(p, r) == r.net \/ (~ResOk(r) /\ ~PermanentInvalidity(p, r))

\* handlePush of handler i started its sends in this step.
DispatchStartedBy(i) == task[i].pc = "push_get" /\ task'[i].pc = "push_wait"

\* The handler whose dispatch owns the send frame s.
OwnerOf(s) == s \div 10

\* C32: within one dispatch each device gets at most one delivery request.
\* The sends are started one per device of the entry the dispatch read, and
\* the start touches the sends of no other dispatch; a send comes to its
\* delivery request only from its credential call, leaves it with the first
\* answer and never comes back to it; an answer that is a failed delivery ends
\* the send at once with status failed.
C32_SingleAttempt ==
  [][/\ \A i \in TaskIds : DispatchStartedBy(i) =>
          /\ \A n \in 1..Cardinality(Tokens) :
               IF n <= Len(task'[i].devices)
               THEN /\ task'[SendId(i, n)].op = "send" /\ task'[SendId(i, n)].pc = "cred_get"
                    /\ task'[SendId(i, n)].tok = task'[i].devices[n].device_token
               ELSE task'[SendId(i, n)] = IdleTask
          /\ \A s \in SendIds \ SendsOf(i) : task'[s] = task[s]
     /\ \A s \in SendIds :
          LET f == task[s]
              g == task'[s]
          IN /\ (f.op = "send" /\ g # f /\ ~DispatchStartedBy(OwnerOf(s))) =>
                  /\ g.op = "send" /\ g.tok = f.tok
                  /\ g.pc = "fetch" => f.pc \in {"cred_get", "cred_put"}
                  /\ g.pc # "cred_get"
                  /\ f.pc = "fetch" => g.pc # "fetch"
             /\ (f.op = "send" /\ f.pc = "fetch" /\ g # f) =>
                  \A r \in Responses(f.proto) :
                    (DeliveryError(f.proto, r) /\ SendFetch(s, r)) =>
                      (g.pc = "done" /\ g.ret.status = "failed")]_vars

\* A dispatch to two devices has returned: the delivery to the first failed
\* with HTTP 500 and was reported so, the second was sent.
C32_Witness == \E i \in TaskIds :
  /\ task[i].op = "push" /\ task[i].pc = "done"
  /\ Len(task[i].devices) = 2
  /\ task[i].ret.results[1].status = "failed"
  /\ task[i].ret.results[1].reason = "HTTP 500"
  /\ task[i].ret.results[2].status = "sent"


\* The pcs of a send that is running removeDeviceGlobally.
PurgePcs == {"list", "rm_get", "rm_write"}

\* C33: a dispatch whose upstream answers carry no permanent-invalidity signal
\* writes nothing to DEVICE_TOKENS. An answer that is not such a signal ends
\* the send without a write and without a removal started; a send enters
\* removeDeviceGlobally only on such a signal; no step of handlePush itself
\* changes the store; and the only steps that change the store are the write
\* of a removal so started and the writes of the register and unregister
\* requests that run beside the dispatch.
C33_NoSignalNoWrite ==
  [][/\ \A s \in SendIds :
          LET f == task[s]
              g == task'[s]
          IN /\ (f.op = "send" /\ f.pc = "fetch" /\ g # f) =>
                  \A r \in Responses(f.proto) :
                    (~PermanentInvalidity(f.proto, r) /\ SendFetch(s, r)) =>
                      (g.pc = "done" /\ store' = store)
             /\ (f.op = "send" /\ f.pc \notin PurgePcs /\ g.op = "send" /\ g.pc \in PurgePcs) =>
                  \E r \in Responses(f.proto) : PermanentInvalidity(f.proto, r) /\ SendFetch(s, r)
     /\ \A i \in TaskIds : (task[i].op = "push" /\ ~Free(i) /\ task'[i] # task[i]) => store' = store
     /\ store' # store =>
          \/ \E s \in SendIds : task[s].op = "send" /\ RmWriteBy(s)
          \/ \E i \in TaskIds : task[i].op = "register" /\ AddPutBy(i)
          \/ \E i \in TaskIds : task[i].op = "unregister" /\ RmWriteBy(i)]_vars

\* A dispatch to two devices has returned two failures (a network error and a
\* rejected token) and the tenant's entry is what the dispatch read.
C33_Witness == \E i \in TaskIds :
  /\ task[i].op = "push" /\ task[i].pc = "done"
  /\ Len(task[i].devices) = 2
  /\ task[i].ret.results[1].reason = NetworkError
  /\ task[i].ret.results[2].status = "failed"
  /\ task[i].ret.results[2].reason \in {"BadDeviceToken", "The registration token is not valid."}
  /\ getDevices(store, task[i].relay) = task[i].devices


\* Frame j took a step.
StepBy(j) == task'[j] # task[j]

\* The entry of tenant t lost the record of token d in this step.
LostRecord(t, d) == Has(getDevices(store, t), d) /\ ~Has(getDevices(store', t), d)

\* Frame j runs a request made with the identifier of a tenant other than t
\* and is not in a removal after a permanent-invalidity response.
ForeignRequest(j, t) ==
  \/ task[j].op \in {"register", "unregister", "push"} /\ task[j].relay # t
  \/ task[j].op = "send" /\ task[j].pc \notin PurgePcs

\* C34 as stated: the entry of a tenant loses a record only through an
\* unregister request carrying that tenant's identifier or through the removal
\* after a permanent-invalidity response for that record's token; requests
\* made with another tenant's identifier that receive no such signal leave the
\* entry unchanged.
C34_LosesOnlyByOwner ==
  [][\A t \in Tenants :
       /\ \A d \in Tokens : LostRecord(t, d) =>
            \E j \in FrameIds :
              /\ RmWriteBy(j)
              /\ \/ task[j].op = "unregister" /\ task[j].relay = t
                 \/ task[j].op \in {"purge", "send"} /\ task[j].tok = d
       /\ \A j \in FrameIds : (ForeignRequest(j, t) /\ StepBy(j)) =>
            getDevices(store', t) = getDevices(store, t)]_vars

\* C34, amended: the entry of a tenant is written only by register and
\* unregister requests carrying that tenant's identifier and by the removal
\* after a permanent-invalidity response; register, unregister and push
\* requests made with another tenant's identifier, and sends that received no
\* such response, leave the entry unchanged. A send starts a removal only on a
\* permanent-invalidity response, and the removal names the token the send
\* delivered to. A record is lost either to the unregister or the removal that
\* names its token, or to the write of an overlapping call on the same entry
\* that had read the entry before the record was stored.
C34_WrittenOnlyByOwner ==
  [][/\ \A s \in SendIds :
          (task[s].op = "send" /\ task[s].pc \notin PurgePcs
             /\ task'[s].op = "send" /\ task'[s].pc \in PurgePcs) =>
            /\ \E r \in Responses(task[s].proto) :
                 PermanentInvalidity(task[s].proto, r) /\ SendFetch(s, r)
            /\ task'[s].tok = task[s].tok
     /\ \A s \in SendIds :
          (task[s].op = "send" /\ task[s].pc \in PurgePcs /\ StepBy(s)
             /\ task'[s].pc \in PurgePcs) => task'[s].tok = task[s].tok
     /\ store' # store => \A t \in Tenants :
          /\ getDevices(store', t) # getDevices(store, t) =>
               \E j \in FrameIds :
                 /\ task[j].relay = t
                 /\ \/ task[j].op \in {"register", "unregister"} /\ (AddPutBy(j) \/ RmWriteBy(j))
                    \/ task[j].op \in {"purge", "send"} /\ RmWriteBy(j)
          /\ \A d \in Tokens : LostRecord(t, d) =>
               \E j \in FrameIds :
                 /\ task[j].relay = t
                 /\ \/ RmWriteBy(j) /\ task[j].tok = d
                    \/ (AddPutBy(j) \/ RmWriteBy(j)) /\ ~Has(task[j].devices, d)
          /\ \A j \in FrameIds : (ForeignRequest(j, t) /\ StepBy(j)) =>
               getDevices(store', t) = getDevices(store, t)]_vars

\* A token is registered under both tenants; a dispatch made with the
\* identifier of tenant 1 has returned a failed delivery to it that carried no
\* permanent-invalidity signal, and both tenants still hold the token.
C34_Witness == \E i \in TaskIds, d \in Tokens :
  /\ task[i].op = "push" /\ task[i].pc = "done" /\ task[i].relay = 1
  /\ Len(task[i].devices) = 1 /\ task[i].devices[1].device_token = d
  /\ task[i].ret.results[1].status = "failed"
  /\ <<2, d>> \in registered
  /\ Has(getDevices(store, 1), d)
  /\ Has(getDevices(store, 2), d)


\* c is a credential of protocol p made by one of the generations started so far.
GeneratedFor(c, p) == c.kind = CredentialKind(p) /\ c.n \in 1..genCalls[p]

\* C35: under every interleaving of getCredential and refreshCredential, a
\* credential that getCredential returned is of its protocol's kind, comes
\* from a generation of that protocol started before, and not from one that
\* failed; the slot holds such a credential too. A put writes the credential
\* of its own generation over whatever the slot holds and nothing else changes
\* the slot, so when all calls have finished the slot holds the credential of
\* the last put.
C35_GeneratedLastPutWins ==
  /\ [](\A i \in TaskIds :
          (task[i].op = "getCredential" /\ task[i].pc = "done") =>
            /\ GeneratedFor(task[i].ret, task[i].proto)
            /\ \A j \in TaskIds :
                 (CredCall(j) /\ task[j].pc = "raised" /\ task[j].proto = task[i].proto)
                   => task[j].n # task[i].ret.n)
  /\ [](\A p \in Protocols :
          auth[AuthKey(p)].present => GeneratedFor(auth[AuthKey(p)].value, p))
  /\ [][\A p \in Protocols :
          /\ \A i \in TaskIds :
               (CredCall(i) /\ task[i].proto = p /\ CredPut(i)) =>
                 /\ task[i].cred.n = task[i].n
                 /\ auth'[AuthKey(p)].value = task[i].cred
                 /\ auth'[AuthKey(p)].stored_at = now
          /\ auth'[AuthKey(p)] # auth[AuthKey(p)] =>
               \E i \in TaskIds : CredCall(i) /\ task[i].proto = p /\ CredPut(i)
          /\ \A i \in TaskIds :
               (task[i].op = "getCredential" /\ task[i].proto = p /\ CredGet(i)
                  /\ task'[i].pc = "done") => task'[i].ret = auth[AuthKey(p)].value]_vars

\* Two getCredential calls on one protocol both found the cache cold and both
\* generated; all calls have finished and the slot holds the credential of the
\* first generation, whose put came last.
C35_Witness ==
  /\ Generated(task[1]) /\ Generated(task[2])
  /\ task[1].proto = task[2].proto
  /\ \E i \in TaskIds :
       /\ task[i].ret.n = 1
       /\ task[3 - i].ret.n = 2
       /\ auth[AuthKey(task[i].proto)].value = task[i].ret


\* The slot of p got a new value in this step.
SlotRewritten(p) == auth[AuthKey(p)].present /\ auth'[AuthKey(p)] # auth[AuthKey(p)]

\* C36 as stated: the generation times of the successive values of a slot are
\* non-decreasing under every interleaving of getCredential and
\* refreshCredential.
C36_GenerationMonotone ==
  [][\A p \in Protocols :
       SlotRewritten(p) => auth'[AuthKey(p)].value.iat >= auth[AuthKey(p)].value.iat]_vars

\* The slot of p holds a credential generated later than the one frame i is
\* about to store.
HoldsNewer(i, p) ==
  auth[AuthKey(p)].present /\ auth[AuthKey(p)].value.iat > task[i].cred.iat

\* C36, amended: the slot holds the credential of the last put, whatever its
\* generation time. Each put of getCredential and refreshCredential writes the
\* credential its own call generated, dated within that call's generation, and
\* compares it with nothing: it goes through also when the slot holds a
\* credential generated later, and only then does the generation time of the
\* slot decrease. That happens only to a call whose generation was already
\* under way when the value it replaces was stored; for APNs, whose credential
\* is dated when its generation starts, the replaced value then comes from a
\* generation started later. A call that starts generating once the value in
\* the slot is stored never lowers the generation time.
C36_LastPutDecides ==
  [][\A p \in Protocols :
       /\ \A i \in TaskIds :
            (CredCall(i) /\ task[i].proto = p /\ CredPut(i)) =>
              /\ auth'[AuthKey(p)].value = task[i].cred
              /\ task[i].cred.n = task[i].n
              /\ task[i].cred.iat >= task[i].iat /\ task[i].cred.iat <= now
              /\ (SlotRewritten(p) /\ auth'[AuthKey(p)].value.iat < auth[AuthKey(p)].value.iat)
                   <=> HoldsNewer(i, p)
              /\ HoldsNewer(i, p) =>
                   /\ task[i].iat < auth[AuthKey(p)].stored_at
                   /\ p = "apns" => auth[AuthKey(p)].value.n > task[i].n
              /\ auth[AuthKey(p)].stored_at <= task[i].iat =>
                   auth'[AuthKey(p)].value.iat >= auth[AuthKey(p)].value.iat
       /\ SlotRewritten(p) => \E i \in TaskIds : CredCall(i) /\ task[i].proto = p /\ CredPut(i)]_vars

\* Two calls on one protocol have generated and returned; the one whose
\* credential is the older stored last, and the slot holds the older
\* credential after it held the newer.
C36_Witness == \E i \in TaskIds, j \in TaskIds :
  /\ CredCall(i) /\ CredCall(j) /\ task[i].pc = "done" /\ task[j].pc = "done"
  /\ task[i].proto = task[j].proto
  /\ task[i].cred.kind = CredentialKind(task[i].proto)
  /\ task[j].cred.kind = CredentialKind(task[j].proto)
  /\ task[i].cred.iat < task[j].cred.iat
  /\ auth[AuthKey(task[i].proto)].value = task[i].cred
  /\ auth[AuthKey(task[i].proto)].stored_at >= task[j].cred.iat


\* The record a register request for token d with body b stores at time t.
RecordOf(d, b, t) ==
  [platform |-> b.platform, device_token |-> d, bundle_id |-> b.bundle_id,
   registered_at |-> t]

\* addDevice(kv, T, r) run to its end on the store kv with no other writer.
AddDone(kv, t, r) == kvPut(kv, key(t), addDeviceList(getDevices(kv, t), r))

\* The frame of removeDevice(kv, T, d) called by handleUnregister, after its read.
RemoveRead(kv, t, d) ==
  RmRead(kv, [IdleTask EXCEPT !.op = "unregister", !.pc = "rm_get", !.relay = t, !.tok = d])

\* C37: for a token d that tenant T does not hold, add(T, r) with
\* r.device_token = d followed by remove(T, d) returns true and leaves the
\* store exactly as it was before the add, the key of T absent if it was
\* absent. In every state the registry reaches with one call after the other
\* the two calls compose to the identity; and the calls as they run do what
\* the composition rests on: the add of an absent token appends to the entry
\* as it stands, the remove of the token at the end of an entry returns true
\* and leaves the records before it, deleting the key when there are none, and
\* no entry is stored empty.
C37_AddRemoveRestores ==
  /\ [](Quiescent =>
          \A t \in Tenants, d \in Tokens, b \in Bodies :
            ~Has(getDevices(store, t), d) =>
              LET kv1 == AddDone(store, t, RecordOf(d, b, now))
                  f1 == RemoveRead(kv1, t, d)
              IN /\ f1.pc = "rm_write"
                 /\ RmWriteFrame(kv1, f1) = store
                 /\ AfterRemove(f1, TRUE).pc = "done"
                 /\ AfterRemove(f1, TRUE).ret = TRUE)
  /\ [](\A t \in Tenants : store[key(t)] # Null => store[key(t)].devices # <<>>)
  /\ [][\A i \in TaskIds :
          LET t == task[i].relay
              entry == getDevices(store, t)
          IN /\ (AddPutBy(i) /\ ~Has(entry, task[i].tok)) =>
                  store' = [store EXCEPT ![key(t)] =
                              [present |-> TRUE, devices |-> Append(entry, task[i].dev)]]
             /\ (task[i].op = "unregister" /\ task[i].pc = "rm_get" /\ StepBy(i)
                   /\ Has(entry, task[i].tok)) => task'[i].pc = "rm_write"
             /\ (task[i].op = "unregister" /\ RmWriteBy(i) /\ entry # <<>>
                   /\ entry[Len(entry)].device_token = task[i].tok) =>
                  /\ store' = [store EXCEPT ![key(t)] =
                                 IF Len(entry) = 1 THEN Null
                                 ELSE [present |-> TRUE,
                                       devices |-> SubSeq(entry, 1, Len(entry) - 1)]]
                  /\ task'[i].pc = "done" /\ task'[i].ret = TRUE]_vars

\* One registration and the unregistration of the same token have run, the
\* second returned true, and the store is empty as at the start.
C37_Witness == \E i \in TaskIds :
  /\ ops = 2
  /\ task[i].op = "unregister" /\ task[i].pc = "done" /\ task[i].ret = TRUE
  /\ registered = {<<task[i].relay, task[i].tok>>}
  /\ \A t \in Tenants : store[key(t)] = Null

====
